---- MODULE Spec2Model ----
(***************************************************************************)
(* Model of the two-stage inspection-data pipeline:                        *)
(*   - the streaming extractor   src/inspection-data/extract_filtered_csv.py *)
(*   - the dependency-ordered loader                                       *)
(*       src/backend/api/management/commands/import_inspection_csvs.py     *)
(*                                                                         *)
(* Text is modelled as a sequence of one-character strings, so that        *)
(* strip(), slicing, split(), int() and the date parser are computed the   *)
(* way the Python code computes them.  A character outside ASCII is named  *)
(* by a token ("NBSP", "LF", ...).  Python's None is the empty sequence    *)
(* where the value is an int or a date (Some(x) is <<x>> for an int, and   *)
(* <<y, m, d>> for a date).                                                *)
(***************************************************************************)
EXTENDS Integers, Sequences, FiniteSets, TLC

VARIABLES
    \* ---- extractor (extract_filtered_csv.py, main) ----
    args,               \* parsed command line
    pc,                 \* "loop" while rows are read, "done" after the loop
    row,                \* the loop variable: the row read last
    seen_restaurants,   \* set of CAMIS already written
    inspection_index,   \* composite key -> inspection id
    next_inspection_id,
    next_violation_id,
    stats,
    rest_out,           \* rows written to restaurants.csv
    insp_out,           \* rows written to inspections.csv
    viol_out,           \* rows written to violations.csv
    history,            \* per scanned row: the iteration's locals
    \* ---- loader (import_inspection_csvs.py, Command.handle) ----
    options,            \* dry_run, truncate, strict
    files,              \* the three CSV files the paths resolve to
    db,                 \* committed storage: the three tables
    tx,                 \* storage as the open transaction sees it
    lpc,                \* where handle is
    line_no,            \* line number of the row the reader yields next
    counts,             \* rows counted as processed, per phase
    failures,           \* warnings written to stderr: << phase, line_no >>
    error,              \* what ended the run, if it did not complete
    phases,             \* the import phases begun in this run
    run,                \* 1 for the first run, 2.. for the repeated ones
    db_at_start,        \* storage when this run started
    db_at_phase,        \* storage when the phase begun last began
    first_run_db        \* storage when the first run ended

exVars == << args, pc, row, seen_restaurants, inspection_index,
             next_inspection_id, next_violation_id, stats,
             rest_out, insp_out, viol_out, history >>

ldVars == << options, files, db, tx, lpc, line_no, counts, failures, error,
             phases, run, db_at_start, db_at_phase, first_run_db >>

vars == << exVars, ldVars >>

\* the loader does not run
LdIdle ==
    /\ options = << >> /\ files = << >> /\ db = << >> /\ tx = << >>
    /\ lpc = "idle" /\ line_no = 0 /\ counts = << >> /\ failures = << >>
    /\ error = << >> /\ phases = << >> /\ run = 0
    /\ db_at_start = << >> /\ db_at_phase = << >> /\ first_run_db = << >>

\* the extractor does not run
ExIdle ==
    /\ args = << >> /\ pc = "idle" /\ row = << >>
    /\ seen_restaurants = {} /\ inspection_index = << >>
    /\ next_inspection_id = 0 /\ next_violation_id = 0 /\ stats = << >>
    /\ rest_out = << >> /\ insp_out = << >> /\ viol_out = << >> /\ history = << >>

----------------------------------------------------------------------------
(* Bounds of the model *)

\* number of input rows an extraction run reads at most
MaxRows == 3

\* number of times the loader is run in a row on the same files
MaxRuns == 2

----------------------------------------------------------------------------
(* Python text primitives *)

None == << >>

Some(x) == << x >>

Min(a, b) == IF a < b THEN a ELSE b

\* str.isspace() for the characters of the model's alphabet
IsSpace(c) == c \in {" ", "NBSP", "LF", "CR", "TAB"}

RECURSIVE LStrip(_)
LStrip(s) == IF s # << >> /\ IsSpace(Head(s)) THEN LStrip(Tail(s)) ELSE s

RECURSIVE RStrip(_)
RStrip(s) ==
    IF s # << >> /\ IsSpace(s[Len(s)]) THEN RStrip(SubSeq(s, 1, Len(s) - 1)) ELSE s

\* str.strip()
Strip(s) == RStrip(LStrip(s))

\* s[:n]
Take(s, n) == SubSeq(s, 1, Min(n, Len(s)))

\* position of the first c in s, 0 when there is none
RECURSIVE IndexOf(_, _)
IndexOf(s, c) ==
    IF s = << >> THEN 0
    ELSE IF Head(s) = c THEN 1
    ELSE LET k == IndexOf(Tail(s), c) IN IF k = 0 THEN 0 ELSE k + 1

\* s.split(c): always at least one piece
RECURSIVE Split(_, _)
Split(s, c) ==
    LET k == IndexOf(s, c) IN
    IF k = 0 THEN << s >>
    ELSE << SubSeq(s, 1, k - 1) >> \o Split(SubSeq(s, k + 1, Len(s)), c)

DigitChars == << "0", "1", "2", "3", "4", "5", "6", "7", "8", "9" >>

IsDigit(c) == \E k \in 1..10 : DigitChars[k] = c

DigitVal(c) == (CHOOSE k \in 1..10 : DigitChars[k] = c) - 1

RECURSIVE DigitsValue(_, _)
DigitsValue(s, acc) ==
    IF s = << >> THEN acc ELSE DigitsValue(Tail(s), 10 * acc + DigitVal(Head(s)))

\* the digits of a stripped int literal t after its sign
Unsigned(t) == IF t # << >> /\ Head(t) \in {"+", "-"} THEN Tail(t) ELSE t

\* int() of the digits body of the stripped literal t
IntOfBody(t, body) ==
    IF body = << >> \/ \E k \in 1..Len(body) : ~IsDigit(body[k]) THEN None
    ELSE IF Head(t) = "-" THEN Some(0 - DigitsValue(body, 0))
    ELSE Some(DigitsValue(body, 0))

IntOfStripped(t) == IntOfBody(t, Unsigned(t))

\* int(s): surrounding whitespace, an optional sign, then decimal digits;
\* anything else raises ValueError, which every caller turns into None
PyInt(s) == IntOfStripped(Strip(s))

RECURSIVE NatToStr(_)
NatToStr(n) ==
    IF n < 10 THEN << DigitChars[n + 1] >>
    ELSE NatToStr(n \div 10) \o << DigitChars[(n % 10) + 1] >>

\* str(n) of an int
IntToStr(n) == IF n < 0 THEN << "-" >> \o NatToStr(0 - n) ELSE NatToStr(n)

\* zero-padded decimal, as in date.isoformat()
RECURSIVE ZeroPad(_, _)
ZeroPad(s, w) == IF Len(s) >= w THEN s ELSE ZeroPad(<< "0" >> \o s, w)

----------------------------------------------------------------------------
(* datetime.date *)

IsLeap(y) == (y % 4 = 0) /\ ((y % 100 # 0) \/ (y % 400 = 0))

DaysInMonth(y, m) ==
    IF m = 2 THEN (IF IsLeap(y) THEN 29 ELSE 28)
    ELSE IF m \in {4, 6, 9, 11} THEN 30 ELSE 31

\* dt.date(y, m, d) raises ValueError unless the date exists
ValidDate(y, m, d) ==
    /\ y >= 1 /\ y <= 9999
    /\ m >= 1 /\ m <= 12
    /\ d >= 1 /\ d <= DaysInMonth(y, m)

\* d1 < d2 on dates <<y, m, d>>
DateLT(d1, d2) ==
    \/ d1[1] < d2[1]
    \/ d1[1] = d2[1] /\ d1[2] < d2[2]
    \/ d1[1] = d2[1] /\ d1[2] = d2[2] /\ d1[3] < d2[3]

\* date.isoformat(): YYYY-MM-DD
IsoFormat(d) ==
    ZeroPad(NatToStr(d[1]), 4) \o << "-" >> \o ZeroPad(NatToStr(d[2]), 2)
        \o << "-" >> \o ZeroPad(NatToStr(d[3]), 2)

----------------------------------------------------------------------------
(* Case mapping *)

LowerChars == << "a", "b", "c", "d", "e", "f", "g", "h", "i", "j", "k", "l", "m",
                 "n", "o", "p", "q", "r", "s", "t", "u", "v", "w", "x", "y", "z" >>

UpperChars == << "A", "B", "C", "D", "E", "F", "G", "H", "I", "J", "K", "L", "M",
                 "N", "O", "P", "Q", "R", "S", "T", "U", "V", "W", "X", "Y", "Z" >>

IsLower(c) == \E k \in 1..26 : LowerChars[k] = c

IsUpper(c) == \E k \in 1..26 : UpperChars[k] = c

IsCased(c) == IsLower(c) \/ IsUpper(c)

UpperChar(c) == IF IsLower(c) THEN UpperChars[CHOOSE k \in 1..26 : LowerChars[k] = c] ELSE c

LowerChar(c) == IF IsUpper(c) THEN LowerChars[CHOOSE k \in 1..26 : UpperChars[k] = c] ELSE c

\* str.upper()
Upper(s) == [k \in 1..Len(s) |-> UpperChar(s[k])]

\* str.title(): a cased character is upper-cased when the character before
\* it is not cased, lower-cased otherwise
Title(s) ==
    [k \in 1..Len(s) |->
        IF k > 1 /\ IsCased(s[k - 1]) THEN LowerChar(s[k]) ELSE UpperChar(s[k])]

\* s.replace(a, b) for single characters
ReplaceChar(s, a, b) == [k \in 1..Len(s) |-> IF s[k] = a THEN b ELSE s[k]]

\* re.sub(r"\s+", " ", s)
RECURSIVE CollapseSpaces(_)
CollapseSpaces(s) ==
    IF s = << >> THEN << >>
    ELSE IF IsSpace(Head(s)) THEN << " " >> \o CollapseSpaces(LStrip(s))
    ELSE << Head(s) >> \o CollapseSpaces(Tail(s))

----------------------------------------------------------------------------
(* Field normalizers of extract_filtered_csv.py *)

\* characters of [\x00-\x1f\x7f] in the model's alphabet
IsControl(c) == c \in {"LF", "CR", "TAB", "DEL"}

\* the punctuation table of sanitize_text
TranslateChar(c) ==
    IF c \in {"LSQUO", "RSQUO"} THEN "'"
    ELSE IF c \in {"LDQUO", "RDQUO"} THEN "\""
    ELSE IF c \in {"EMDASH", "ENDASH"} THEN "-"
    ELSE c

\* the non-ASCII characters of the model's alphabet
NonAscii == {"NBSP", "LSQUO", "RSQUO", "LDQUO", "RDQUO", "EMDASH", "ENDASH",
             "EACUTE", "FI_LIG", "CJK"}

\* unicodedata.normalize("NFKD", c).encode("ascii", "ignore") of one character
AsciiFold(c) ==
    IF c = "EACUTE" THEN << "e" >>
    ELSE IF c = "FI_LIG" THEN << "f", "i" >>
    ELSE IF c = "NBSP" THEN << " " >>
    ELSE IF c \in NonAscii THEN << >>
    ELSE << c >>

RECURSIVE AsciiOnly(_)
AsciiOnly(s) == IF s = << >> THEN << >> ELSE AsciiFold(Head(s)) \o AsciiOnly(Tail(s))

\* the replacements of sanitize_text on one character, in its order:
\* NBSP and newlines, control characters, the punctuation table
CleanChar(c) ==
    IF c \in {"NBSP", "CR", "LF"} \/ IsControl(c) THEN " " ELSE TranslateChar(c)

CleanChars(s) == [k \in 1..Len(s) |-> CleanChar(s[k])]

AsciiIf(s, ascii_only) == IF ascii_only THEN AsciiOnly(s) ELSE s

sanitize_text(value, ascii_only) ==
    Strip(CollapseSpaces(AsciiIf(CleanChars(value), ascii_only)))

Manhattan == << "M", "a", "n", "h", "a", "t", "t", "a", "n" >>

Bronx == << "B", "r", "o", "n", "x" >>

Brooklyn == << "B", "r", "o", "o", "k", "l", "y", "n" >>

Queens == << "Q", "u", "e", "e", "n", "s" >>

StatenIsland == << "S", "t", "a", "t", "e", "n", " ", "I", "s", "l", "a", "n", "d" >>

Boroughs == {Manhattan, Bronx, Brooklyn, Queens, StatenIsland}

\* the dict BOROUGH_CHOICES as a set of <<key, value>> pairs
BOROUGH_CHOICES ==
    { << << "M", "A", "N", "H", "A", "T", "T", "A", "N" >>, Manhattan >>,
      << << "B", "R", "O", "N", "X" >>, Bronx >>,
      << << "B", "R", "O", "O", "K", "L", "Y", "N" >>, Brooklyn >>,
      << << "Q", "U", "E", "E", "N", "S" >>, Queens >>,
      << << "S", "T", "A", "T", "E", "N", " ", "I", "S", "L", "A", "N", "D" >>, StatenIsland >>,
      << << "S", "T", "A", "T", "E", "N", "_", "I", "S", "L", "A", "N", "D" >>, StatenIsland >>,
      << << "S", "T", "A", "T", "E", "N", "-", "I", "S", "L", "A", "N", "D" >>, StatenIsland >>,
      << << "S", "T", "A", "T", "E", "N", "I", "S", "L", "A", "N", "D" >>, StatenIsland >>,
      << << "S", "T", ".", " ", "G", "E", "O", "R", "G", "E" >>, StatenIsland >> }

\* BOROUGH_CHOICES.get(up)
BoroughChoice(up) ==
    IF \E p \in BOROUGH_CHOICES : p[1] = up
    THEN (CHOOSE p \in BOROUGH_CHOICES : p[1] = up)[2]
    ELSE None

\* normalize_boro after "v = value.strip()"
BoroOfStripped(v) ==
    IF v \in Boroughs THEN v
    ELSE BoroughChoice(CollapseSpaces(Strip(ReplaceChar(Upper(v), "/", " "))))

\* None (<< >>) when the borough cannot be mapped
normalize_boro(value) == IF value = << >> THEN None ELSE BoroOfStripped(Strip(value))

\* dt.date(int(y), int(m), int(d)) with ValueError turned into None
DateOfInts(m, d, y) ==
    IF m = None \/ d = None \/ y = None THEN None
    ELSE IF ValidDate(y[1], m[1], d[1]) THEN << y[1], m[1], d[1] >>
    ELSE None

\* "m, d, y = v.split('/')" raises unless there are three parts
DateOfParts(parts) ==
    IF Len(parts) # 3 THEN None
    ELSE DateOfInts(PyInt(parts[1]), PyInt(parts[2]), PyInt(parts[3]))

\* parse_date_mdy after "v = value.strip()"
DateOfStripped(v) ==
    IF v = << >> THEN None ELSE DateOfParts(Split(Split(v, " ")[1], "/"))

\* a date <<y, m, d>>, or None
parse_date_mdy(value) == IF value = << >> THEN None ELSE DateOfStripped(Strip(value))

\* Some(n) or None
safe_int(value) == PyInt(value)

RECURSIVE OnlyDigits(_)
OnlyDigits(s) ==
    IF s = << >> THEN << >>
    ELSE IF IsDigit(Head(s)) THEN << Head(s) >> \o OnlyDigits(Tail(s))
    ELSE OnlyDigits(Tail(s))

PhoneMaxLen == 20

clean_phone(value) == Take(OnlyDigits(value), PhoneMaxLen)

GradeMaxLen == 2

normalize_grade(value) == IF value = << >> THEN << >> ELSE Take(Strip(value), GradeMaxLen)

Critical == << "C", "r", "i", "t", "i", "c", "a", "l" >>

NotCritical == << "N", "o", "t", " ", "C", "r", "i", "t", "i", "c", "a", "l" >>

NotApplicable == << "N", "o", "t", " ", "A", "p", "p", "l", "i", "c", "a", "b", "l", "e" >>

CriticalFlags == {Critical, NotCritical, NotApplicable}

CriticalFlagOr(cf_up) == IF cf_up \notin CriticalFlags THEN NotApplicable ELSE cf_up

\* normalize_critical_flag without title(): the letter case must match
normalize_critical_flag_CaseSensitive(critical_flag) == CriticalFlagOr(Strip(critical_flag))

\* the critical-flag normalization inside main
normalize_critical_flag(critical_flag) == CriticalFlagOr(Title(Strip(critical_flag)))

----------------------------------------------------------------------------
(* Extractor: one iteration of the row loop of main *)

CamisMaxLen == 10

NameMaxLen == 255

BuildingMaxLen == 20

StreetMaxLen == 255

ZipcodeMaxLen == 10

CuisineMaxLen == 100

InspectionTypeMaxLen == 50

ActionMaxLen == 255

CodeMaxLen == 20

\* "if args.limit and stats[input_rows_scanned] > args.limit": a limit of
\* None or 0 is falsy and never breaks the loop
LimitExceeded(a, scanned) ==
    a.limit # None /\ a.limit[1] # 0 /\ scanned > a.limit[1]

IsoOrEmpty(d) == IF d = None THEN << >> ELSE IsoFormat(d)

StrOrEmpty(n) == IF n = None THEN << >> ELSE IntToStr(n[1])

\* the locals one iteration computes from its row, before any branch
Locals(r) ==
    [ inspection_date       |-> parse_date_mdy(r.CSV_INSPECTION_DATE),
      camis                 |-> Strip(r.CSV_CAMIS),
      dba                   |-> Strip(r.CSV_DBA),
      boro                  |-> normalize_boro(r.CSV_BORO),
      building              |-> Strip(r.CSV_BUILDING),
      street                |-> Strip(r.CSV_STREET),
      zipcode               |-> Strip(r.CSV_ZIPCODE),
      phone                 |-> clean_phone(r.CSV_PHONE),
      cuisine               |-> Strip(r.CSV_CUISINE),
      inspection_type       |-> Strip(r.CSV_INSPECTION_TYPE),
      action                |-> Strip(r.CSV_ACTION),
      score_str             |-> StrOrEmpty(safe_int(r.CSV_SCORE)),
      grade                 |-> normalize_grade(r.CSV_GRADE),
      grade_date_iso        |-> IsoOrEmpty(parse_date_mdy(r.CSV_GRADE_DATE)),
      violation_code        |-> Strip(r.CSV_VIOLATION_CODE),
      violation_description |-> Strip(r.CSV_VIOLATION_DESCRIPTION),
      critical_flag         |-> Strip(r.CSV_CRITICAL_FLAG) ]

\* DateFilteredOut with an exclusive end date
DateFilteredOut_ExclusiveEnd(a, inspection_date) ==
    \/ inspection_date = None
    \/ DateLT(inspection_date, a.start_date)
    \/ ~DateLT(inspection_date, a.end_date)

\* the date filter: unparsable, before start_date or after end_date
DateFilteredOut(a, inspection_date) ==
    \/ inspection_date = None
    \/ DateLT(inspection_date, a.start_date)
    \/ DateLT(a.end_date, inspection_date)

\* RestaurantRejected that accepts any borough
RestaurantRejected_NoBoro(loc) ==
    \/ loc.camis = << >>
    \/ loc.dba = << >>

\* "if not camis or not dba or not boro"
RestaurantRejected(loc) ==
    \/ loc.camis = << >>
    \/ loc.dba = << >>
    \/ loc.boro = None

\* RestaurantCapDrops that does not look at seen_restaurants first
RestaurantCapDrops_IgnoresSeen(a, seen, camis) ==
    /\ a.max_restaurants # None
    /\ Cardinality(seen) >= a.max_restaurants[1]

\* the restaurant cap: an unseen CAMIS beyond the cap skips the row
RestaurantCapDrops(a, seen, camis) ==
    /\ camis \notin seen
    /\ a.max_restaurants # None
    /\ Cardinality(seen) >= a.max_restaurants[1]

\* the row written to restaurants.csv
RestaurantRecord(a, loc) ==
    [ camis    |-> Take(loc.camis, CamisMaxLen),
      name     |-> sanitize_text(Take(loc.dba, NameMaxLen), a.ascii),
      boro     |-> loc.boro,
      building |-> sanitize_text(Take(loc.building, BuildingMaxLen), a.ascii),
      street   |-> sanitize_text(Take(loc.street, StreetMaxLen), a.ascii),
      zipcode  |-> Take(loc.zipcode, ZipcodeMaxLen),
      phone    |-> loc.phone,
      cuisine  |-> sanitize_text(Take(loc.cuisine, CuisineMaxLen), a.ascii) ]

\* the composite key (camis, inspection_date_iso, inspection_type, action,
\* score_str, grade_str, grade_date_iso) of a row that passed the date filter
inspection_key(loc) ==
    << loc.camis,
       IsoFormat(loc.inspection_date),
       loc.inspection_type,
       loc.action,
       loc.score_str,
       loc.grade,
       loc.grade_date_iso >>

\* InspectionCapDrops that drops the row whether its key is new or not
InspectionCapDrops_AnyKey(a, index, written, key) ==
    /\ a.max_inspections # None
    /\ written >= a.max_inspections[1]

\* InspectionCapDrops off by one: ">" for ">="
InspectionCapDrops_OffByOne(a, index, written, key) ==
    /\ key \notin DOMAIN index
    /\ a.max_inspections # None
    /\ written > a.max_inspections[1]

\* the inspection cap: a new key beyond the cap skips the row
InspectionCapDrops(a, index, written, key) ==
    /\ key \notin DOMAIN index
    /\ a.max_inspections # None
    /\ written >= a.max_inspections[1]

\* InspectionRecord that writes the CAMIS without cutting it to 10 characters
InspectionRecord_FullCamis(a, loc, inspection_id) ==
    [ id              |-> inspection_id,
      restraunt_camis |-> loc.camis,
      inspection_date |-> IsoFormat(loc.inspection_date),
      inspection_type |-> sanitize_text(Take(loc.inspection_type, InspectionTypeMaxLen), a.ascii),
      action          |-> sanitize_text(Take(loc.action, ActionMaxLen), a.ascii),
      score           |-> loc.score_str,
      grade           |-> sanitize_text(loc.grade, a.ascii),
      grade_date      |-> loc.grade_date_iso ]

\* the row written to inspections.csv
InspectionRecord(a, loc, inspection_id) ==
    [ id              |-> inspection_id,
      restraunt_camis |-> Take(loc.camis, CamisMaxLen),
      inspection_date |-> IsoFormat(loc.inspection_date),
      inspection_type |-> sanitize_text(Take(loc.inspection_type, InspectionTypeMaxLen), a.ascii),
      action          |-> sanitize_text(Take(loc.action, ActionMaxLen), a.ascii),
      score           |-> loc.score_str,
      grade           |-> sanitize_text(loc.grade, a.ascii),
      grade_date      |-> loc.grade_date_iso ]

\* HasViolation as the comment above it reads: code or description only
HasViolation_CodeOrDescription(loc) ==
    \/ loc.violation_code # << >>
    \/ loc.violation_description # << >>

\* "if violation_code or violation_description or critical_flag"
HasViolation(loc) ==
    \/ loc.violation_code # << >>
    \/ loc.violation_description # << >>
    \/ loc.critical_flag # << >>

ViolationCapReached(a, written) ==
    a.max_violations # None /\ written >= a.max_violations[1]

\* the row written to violations.csv
ViolationRecord(a, loc, violation_id, inspection_id) ==
    [ id            |-> violation_id,
      inspection_id |-> inspection_id,
      code          |-> sanitize_text(Take(loc.violation_code, CodeMaxLen), a.ascii),
      description   |-> sanitize_text(loc.violation_description, a.ascii),
      critical_flag |-> normalize_critical_flag(loc.critical_flag) ]

\* what the iteration leaves in its locals, kept per scanned row:
\* key is the composite key of a row that passed the date filter and the
\* restaurant validation (<< >> otherwise), inspection_id and violation_id
\* are 0 when the iteration assigned none
Entry(outcome, key, inspection_id, is_new, violation_id) ==
    [ outcome |-> outcome, key |-> key, inspection_id |-> inspection_id,
      is_new |-> is_new, violation_id |-> violation_id ]

Logged(s, e) == [s EXCEPT !.history = Append(@, e)]

\* WithRestaurant that forgets to count the restaurant it writes
WithRestaurant_NotCounted(s, a, loc) ==
    IF loc.camis \in s.seen_restaurants THEN s
    ELSE [s EXCEPT !.rest_out = Append(@, RestaurantRecord(a, loc)),
                   !.seen_restaurants = @ \cup {loc.camis}]

\* the restaurant step of an iteration that was not dropped before it
WithRestaurant(s, a, loc) ==
    IF loc.camis \in s.seen_restaurants THEN s
    ELSE [s EXCEPT !.rest_out = Append(@, RestaurantRecord(a, loc)),
                   !.seen_restaurants = @ \cup {loc.camis},
                   !.stats.restaurants_written = @ + 1]

\* WithInspection that issues the id of a new key and writes no record
WithInspection_NotWritten(s, a, loc, key) ==
    IF key \in DOMAIN s.inspection_index THEN s
    ELSE [s EXCEPT !.inspection_index = [k \in DOMAIN @ \cup {key} |->
                                            IF k = key THEN s.next_inspection_id ELSE @[k]],
                   !.next_inspection_id = @ + 1,
                   !.stats.inspections_written = @ + 1]

\* WithInspection without the lookup: every row gets a new inspection
WithInspection_NoDedup(s, a, loc, key) ==
    [s EXCEPT !.inspection_index = [k \in DOMAIN @ \cup {key} |->
                                       IF k = key THEN s.next_inspection_id ELSE @[k]],
              !.next_inspection_id = @ + 1,
              !.insp_out = Append(@, InspectionRecord(a, loc, s.next_inspection_id)),
              !.stats.inspections_written = @ + 1]

\* WithInspection that forgets "next_inspection_id += 1"
WithInspection_NoIncrement(s, a, loc, key) ==
    IF key \in DOMAIN s.inspection_index THEN s
    ELSE [s EXCEPT !.inspection_index = [k \in DOMAIN @ \cup {key} |->
                                            IF k = key THEN s.next_inspection_id ELSE @[k]],
                   !.insp_out = Append(@, InspectionRecord(a, loc, s.next_inspection_id)),
                   !.stats.inspections_written = @ + 1]

\* the inspection step: a new key gets the next id and a row in the output
WithInspection(s, a, loc, key) ==
    IF key \in DOMAIN s.inspection_index THEN s
    ELSE [s EXCEPT !.inspection_index = [k \in DOMAIN @ \cup {key} |->
                                            IF k = key THEN s.next_inspection_id ELSE @[k]],
                   !.next_inspection_id = @ + 1,
                   !.insp_out = Append(@, InspectionRecord(a, loc, s.next_inspection_id)),
                   !.stats.inspections_written = @ + 1]

\* WithViolation that forgets "next_violation_id += 1"
WithViolation_NoIncrement(s, a, loc, inspection_id) ==
    IF HasViolation(loc) /\ ~ViolationCapReached(a, s.stats.violations_written)
    THEN [s EXCEPT !.viol_out = Append(@, ViolationRecord(a, loc, s.next_violation_id, inspection_id)),
                   !.stats.violations_written = @ + 1]
    ELSE s

\* the violation step, for the inspection id the inspection step settled
WithViolation(s, a, loc, inspection_id) ==
    IF HasViolation(loc) /\ ~ViolationCapReached(a, s.stats.violations_written)
    THEN [s EXCEPT !.viol_out = Append(@, ViolationRecord(a, loc, s.next_violation_id, inspection_id)),
                   !.next_violation_id = @ + 1,
                   !.stats.violations_written = @ + 1]
    ELSE s

\* the end of an iteration that reached the violation step: s1 is the state
\* before the inspection step, s2 the state after it
AfterInspection(s1, s2, a, loc, key) ==
    Logged(WithViolation(s2, a, loc, s2.inspection_index[key]),
           Entry("processed", key, s2.inspection_index[key],
                 key \notin DOMAIN s1.inspection_index,
                 IF HasViolation(loc) /\ ~ViolationCapReached(a, s2.stats.violations_written)
                 THEN s2.next_violation_id ELSE 0))

\* the iteration from the inspection step on; s1 is the state after the
\* restaurant step
FromInspection(s1, a, loc, key) ==
    IF InspectionCapDrops(a, s1.inspection_index, s1.stats.inspections_written, key)
    THEN Logged(s1, Entry("inspection_capped", key, 0, FALSE, 0))
    ELSE AfterInspection(s1, WithInspection(s1, a, loc, key), a, loc, key)

\* the iteration after the limit test; s0 is the state with the row counted
Body(s0, a, loc) ==
    IF DateFilteredOut(a, loc.inspection_date)
    THEN Logged([s0 EXCEPT !.stats.rows_date_filtered_out = @ + 1],
                Entry("date_filtered", << >>, 0, FALSE, 0))
    ELSE IF RestaurantRejected(loc)
    THEN Logged([s0 EXCEPT !.stats.rows_boro_filtered_out = @ + 1],
                Entry("rejected", << >>, 0, FALSE, 0))
    ELSE IF RestaurantCapDrops(a, s0.seen_restaurants, loc.camis)
    THEN Logged(s0, Entry("restaurant_capped", inspection_key(loc), 0, FALSE, 0))
    ELSE FromInspection(WithRestaurant(s0, a, loc), a, loc, inspection_key(loc))

\* the state after one iteration of the loop on row r
Iteration(s, a, r) ==
    IF LimitExceeded(a, s.stats.input_rows_scanned + 1)
    THEN Logged([s EXCEPT !.row = r,
                          !.stats.input_rows_scanned = @ + 1,
                          !.stats.input_rows_limited = TRUE,
                          !.pc = "done"],
                Entry("limited", << >>, 0, FALSE, 0))
    ELSE Body([s EXCEPT !.row = r, !.stats.input_rows_scanned = @ + 1], a, Locals(r))

----------------------------------------------------------------------------
(* Extractor: inputs *)

\* the scenario row of the specification: one restaurant, one inspection,
\* one violation
BaseRow ==
    [ CSV_CAMIS                 |-> << "4", "0", "0", "0", "1", "2", "3", "4" >>,
      CSV_DBA                   |-> << "T", "e", "s", "t", " ", "D", "i", "n", "e", "r" >>,
      CSV_BORO                  |-> << "M", "A", "N", "H", "A", "T", "T", "A", "N" >>,
      CSV_BUILDING              |-> << "1" >>,
      CSV_STREET                |-> << "B", "R", "O", "A", "D", "W", "A", "Y" >>,
      CSV_ZIPCODE               |-> << "1", "0", "0", "0", "1" >>,
      CSV_PHONE                 |-> << "(", "2", "1", "2", ")", " ", "5", "5", "5", "-", "1", "2", "3", "4" >>,
      CSV_CUISINE               |-> << "P", "i", "z", "z", "a" >>,
      CSV_INSPECTION_DATE       |-> << "0", "1", "/", "1", "5", "/", "2", "0", "2", "3" >>,
      CSV_INSPECTION_TYPE       |-> << "C", "y", "c", "l", "e", " ", "I", "n", "s", "p", "e", "c", "t", "i", "o", "n" >>,
      CSV_ACTION                |-> << >>,
      CSV_SCORE                 |-> << "1", "3" >>,
      CSV_GRADE                 |-> << "A" >>,
      CSV_GRADE_DATE            |-> << >>,
      CSV_VIOLATION_CODE        |-> << "1", "0", "F" >>,
      CSV_VIOLATION_DESCRIPTION |-> << >>,
      CSV_CRITICAL_FLAG         |-> << "N", "o", "t", " ", "C", "r", "i", "t", "i", "c", "a", "l" >> ]

OtherCamis == << "5", "0", "0", "0", "5", "6", "7", "8" >>

CamisValues ==
    { << >>,
      << " ", "4", "0", "0", "0", "1", "2", "3", "4", " " >>,
      OtherCamis }

DbaValues == { << >>, << " " >> }

BoroValues ==
    { << >>,
      << "U", "n", "k", "n", "o", "w", "n" >>,
      << "S", "T", "A", "T", "E", "N", "_", "I", "S", "L", "A", "N", "D" >> }

OutOfRangeDate == << "1", "2", "/", "3", "1", "/", "2", "0", "2", "2" >>

InspectionDateValues ==
    { << >>,
      << "1", "3", "/", "4", "5", "/", "2", "0", "2", "3" >>,
      OutOfRangeDate,
      << "0", "1", "/", "0", "1", "/", "2", "0", "2", "3" >>,
      << "1", "2", "/", "3", "1", "/", "2", "0", "2", "3" >>,
      << "0", "1", "/", "0", "1", "/", "2", "0", "2", "4" >>,
      << "0", "1", "/", "1", "5", "/", "2", "0", "2", "3", " ", "1", "2", ":", "0", "0", ":", "0", "0", " ", "A", "M" >>,
      << "1", "/", "1", "5", "/", "2", "0", "2", "3" >> }

InspectionTypeValues == { << "R", "e", "-", "i", "n", "s", "p", "e", "c", "t", "i", "o", "n" >> }

ActionValues == { << "C", "l", "o", "s", "e", "d" >> }

ScoreValues == { << >>, << " ", "1", "3" >>, << "x" >> }

GradeValues == { << >>, << "A", " " >> }

GradeDateValues == { << "0", "1", "/", "1", "5", "/", "2", "0", "2", "3" >>, << "x" >> }

ViolationCodeValues == { << >>, << "1", "0", "F" >> }

ViolationDescriptionValue == << "M", "i", "c", "e" >>

CriticalFlagValues == { << >>, << " " >>, << "C", "R", "I", "T", "I", "C", "A", "L" >> }

\* two CAMIS of 11 characters that differ in the last one only
LongCamisA == << "4", "0", "0", "0", "1", "2", "3", "4", "5", "6", "7" >>

LongCamisB == << "4", "0", "0", "0", "1", "2", "3", "4", "5", "6", "8" >>

\* the inspection type of the scenario row with two blanks for one
DoubleSpacedType ==
    << "C", "y", "c", "l", "e", " ", " ", "I", "n", "s", "p", "e", "c", "t", "i", "o", "n" >>

Repeat(c, n) == [k \in 1..n |-> c]

\* a building of 22 characters: a run of blanks crosses the 20th character
SpacedBuilding == << "1" >> \o Repeat(" ", 20) \o << "A" >>

\* a building of 20 characters that ends in a ligature
LigatureBuilding == Repeat("1", 19) \o << "FI_LIG" >>

\* a critical flag that is none of the three in any letter case
UnknownFlag == << "M", "a", "y", "b", "e" >>

\* the rows an input file is made of: the scenario row with one field
\* changed, combinations of the three violation fields, rows of a second
\* restaurant, a row with two defects, and rows with over-long or
\* unrecognised values
Rows ==
    {BaseRow}
    \cup {[BaseRow EXCEPT !.CSV_CAMIS = v] : v \in CamisValues}
    \cup {[BaseRow EXCEPT !.CSV_DBA = v] : v \in DbaValues}
    \cup {[BaseRow EXCEPT !.CSV_BORO = v] : v \in BoroValues}
    \cup {[BaseRow EXCEPT !.CSV_INSPECTION_DATE = v] : v \in InspectionDateValues}
    \cup {[BaseRow EXCEPT !.CSV_INSPECTION_TYPE = v] : v \in InspectionTypeValues}
    \cup {[BaseRow EXCEPT !.CSV_ACTION = v] : v \in ActionValues}
    \cup {[BaseRow EXCEPT !.CSV_SCORE = v] : v \in ScoreValues}
    \cup {[BaseRow EXCEPT !.CSV_GRADE = v] : v \in GradeValues}
    \cup {[BaseRow EXCEPT !.CSV_GRADE_DATE = v] : v \in GradeDateValues}
    \cup {[BaseRow EXCEPT !.CSV_VIOLATION_CODE = c, !.CSV_CRITICAL_FLAG = f] :
            c \in ViolationCodeValues, f \in CriticalFlagValues}
    \cup {[BaseRow EXCEPT !.CSV_VIOLATION_CODE = << >>, !.CSV_CRITICAL_FLAG = << >>,
                          !.CSV_VIOLATION_DESCRIPTION = ViolationDescriptionValue]}
    \cup {[BaseRow EXCEPT !.CSV_CAMIS = OtherCamis, !.CSV_ACTION = v] : v \in ActionValues}
    \cup {[BaseRow EXCEPT !.CSV_CAMIS = << >>, !.CSV_INSPECTION_DATE = OutOfRangeDate]}
    \cup {[BaseRow EXCEPT !.CSV_CAMIS = v] : v \in {LongCamisA, LongCamisB}}
    \cup {[BaseRow EXCEPT !.CSV_INSPECTION_TYPE = DoubleSpacedType]}
    \cup {[BaseRow EXCEPT !.CSV_BUILDING = v] : v \in {SpacedBuilding, LigatureBuilding}}
    \cup {[BaseRow EXCEPT !.CSV_CRITICAL_FLAG = UnknownFlag]}

\* values of --max-restaurants, --max-inspections, --max-violations, --limit
CapValues == {None, Some(0), Some(1)}

LimitValues == {None, Some(0), Some(2)}

StartDate == << 2023, 1, 1 >>

EndDate == << 2023, 12, 31 >>

\* the command lines of the model: at most one of the four options given,
\* or two caps of 1; --ascii with none of the four
ArgsSet ==
    { a \in [ limit           : LimitValues,
              max_restaurants : CapValues,
              max_inspections : CapValues,
              max_violations  : CapValues,
              ascii           : BOOLEAN,
              start_date      : {StartDate},
              end_date        : {EndDate} ] :
        LET given == {f \in {"limit", "max_restaurants", "max_inspections", "max_violations"} :
                          a[f] # None}
        IN  \/ Cardinality(given) = 0
            \/ Cardinality(given) = 1 /\ ~a.ascii
            \/ /\ Cardinality(given) = 2 /\ ~a.ascii
               /\ a.limit = None /\ \A f \in given : a[f] = Some(1) }

----------------------------------------------------------------------------
(* Extractor: the state machine *)

\* the extractor's state as one record
ExState ==
    [ pc |-> pc, row |-> row,
      seen_restaurants |-> seen_restaurants,
      inspection_index |-> inspection_index,
      next_inspection_id |-> next_inspection_id,
      next_violation_id |-> next_violation_id,
      stats |-> stats,
      rest_out |-> rest_out, insp_out |-> insp_out, viol_out |-> viol_out,
      history |-> history ]

\* the variables take the fields of s
ExBecomes(s) ==
    /\ pc' = s.pc
    /\ row' = s.row
    /\ seen_restaurants' = s.seen_restaurants
    /\ inspection_index' = s.inspection_index
    /\ next_inspection_id' = s.next_inspection_id
    /\ next_violation_id' = s.next_violation_id
    /\ stats' = s.stats
    /\ rest_out' = s.rest_out
    /\ insp_out' = s.insp_out
    /\ viol_out' = s.viol_out
    /\ history' = s.history
    /\ UNCHANGED << args, ldVars >>

\* the state before the first row is read
ExInit ==
    /\ args \in ArgsSet
    /\ pc = "loop"
    /\ row = << >>
    /\ seen_restaurants = {}
    /\ inspection_index = << >>
    /\ next_inspection_id = 1
    /\ next_violation_id = 1
    /\ stats = [ input_rows_scanned |-> 0, input_rows_limited |-> FALSE,
                 rows_date_filtered_out |-> 0, rows_boro_filtered_out |-> 0,
                 restaurants_written |-> 0, inspections_written |-> 0,
                 violations_written |-> 0 ]
    /\ rest_out = << >>
    /\ insp_out = << >>
    /\ viol_out = << >>
    /\ history = << >>
    /\ LdIdle

\* one iteration of "for i, row in enumerate(reader, start=1)"
ScanRow ==
    /\ pc = "loop"
    /\ stats.input_rows_scanned < MaxRows
    /\ \E r \in Rows : ExBecomes(Iteration(ExState, args, r))

\* the reader is exhausted: the loop ends and the summary is written
EndOfInput ==
    /\ pc = "loop"
    /\ pc' = "done"
    /\ UNCHANGED << args, row, seen_restaurants, inspection_index,
                    next_inspection_id, next_violation_id, stats,
                    rest_out, insp_out, viol_out, history, ldVars >>

ExNext ==
    \/ ScanRow
    \/ EndOfInput

ExtractSpec == ExInit /\ [][ExNext]_vars

----------------------------------------------------------------------------
(* Extractor: properties *)

\* the scanned rows that passed the date filter and the restaurant validation
Passed == {i \in DOMAIN history : history[i].key # << >>}

\* the rows of inspections.csv that carry the id n
InspectionRows(n) == {k \in DOMAIN insp_out : insp_out[k].id = n}

NoCaps ==
    args.max_restaurants = None /\ args.max_inspections = None /\ args.max_violations = None

CapDropped(i) == history[i].outcome \in {"restaurant_capped", "inspection_capped"}

\* C1 as stated: any two rows that passed the date filter and the restaurant
\* validation and share the composite key are assigned the same inspection
\* id, and exactly one row of inspections.csv is emitted for them (the later
\* row does not emit again).
C1_Original ==
    \A i, j \in Passed :
        (i < j /\ history[i].key = history[j].key) =>
            /\ history[i].inspection_id # 0
            /\ history[j].inspection_id = history[i].inspection_id
            /\ Cardinality(InspectionRows(history[i].inspection_id)) = 1
            /\ ~history[j].is_new

\* C1 as amended: two such rows are either both dropped by a reached cap
\* (neither is assigned an id and nothing is emitted for them), or both are
\* assigned the same id, exactly one row of inspections.csv carries it, and
\* the later row does not emit again.
C1_SameKeySameId ==
    \A i, j \in Passed :
        (i < j /\ history[i].key = history[j].key) =>
            \/ /\ CapDropped(i) /\ CapDropped(j)
               /\ history[i].inspection_id = 0 /\ history[j].inspection_id = 0
               /\ history[i].key \notin DOMAIN inspection_index
               /\ ~history[i].is_new /\ ~history[j].is_new
            \/ /\ ~CapDropped(i) /\ ~CapDropped(j)
               /\ history[i].inspection_id # 0
               /\ history[j].inspection_id = history[i].inspection_id
               /\ Cardinality(InspectionRows(history[i].inspection_id)) = 1
               /\ ~history[j].is_new

\* two rows with one key were assigned one id, then a row with another key came
C1_Witness ==
    /\ Len(history) = 3
    /\ history[1].key # << >> /\ history[1].key = history[2].key
    /\ history[1].inspection_id # 0
    /\ history[3].key # << >> /\ history[3].key # history[1].key

\* C2: with no caps, two rows that passed the date filter and the restaurant
\* validation and whose composite keys differ are assigned distinct
\* inspection ids.
C2_DistinctKeysDistinctIds ==
    NoCaps =>
        \A i, j \in Passed :
            history[i].key # history[j].key =>
                /\ history[i].inspection_id # 0
                /\ history[j].inspection_id # 0
                /\ history[i].inspection_id # history[j].inspection_id

\* three rows with three different keys
C2_Witness ==
    /\ NoCaps
    /\ Len(history) = 3
    /\ \A i, j \in 1..3 : i # j => history[i].key # << >> /\ history[i].key # history[j].key

\* C6: in every state the number of rows written to restaurants.csv,
\* inspections.csv and violations.csv is at most the cap given for it, 0
\* included.
C6_CapBounds ==
    /\ args.max_restaurants # None => Len(rest_out) <= args.max_restaurants[1]
    /\ args.max_inspections # None => Len(insp_out) <= args.max_inspections[1]
    /\ args.max_violations # None => Len(viol_out) <= args.max_violations[1]
    /\ stats.restaurants_written = Len(rest_out)
    /\ stats.inspections_written = Len(insp_out)
    /\ stats.violations_written = Len(viol_out)

\* both the restaurant cap and the inspection cap are reached and drop a row
C6_Witness ==
    /\ args.max_restaurants = Some(1) /\ args.max_inspections = Some(1)
    /\ Len(rest_out) = 1 /\ Len(insp_out) = 1
    /\ \E i \in DOMAIN history : history[i].outcome = "restaurant_capped"
    /\ \E i \in DOMAIN history : history[i].outcome = "inspection_capped"

\* a step of the loop body: a row was read and the loop did not break on
\* the limit
BodyStep == stats'.input_rows_scanned = stats.input_rows_scanned + 1 /\ pc' = "loop"

LastOutcome == history[Len(history)].outcome

\* the inspection date is unparsable or outside [start_date, end_date]
DateOutside(r) ==
    LET d == parse_date_mdy(r.CSV_INSPECTION_DATE) IN
    d = None \/ DateLT(d, args.start_date) \/ DateLT(args.end_date, d)

\* the natural key or the name is empty, or the borough is none of the five
InvalidRestaurant(r) ==
    \/ Strip(r.CSV_CAMIS) = << >>
    \/ Strip(r.CSV_DBA) = << >>
    \/ normalize_boro(r.CSV_BORO) \notin Boroughs

\* one of violation code, description, critical flag is not blank
AnyViolationField(r) ==
    \/ Strip(r.CSV_VIOLATION_CODE) # << >>
    \/ Strip(r.CSV_VIOLATION_DESCRIPTION) # << >>
    \/ Strip(r.CSV_CRITICAL_FLAG) # << >>

NothingEmitted == rest_out' = rest_out /\ insp_out' = insp_out /\ viol_out' = viol_out

DedupUnchanged ==
    /\ seen_restaurants' = seen_restaurants
    /\ inspection_index' = inspection_index
    /\ next_inspection_id' = next_inspection_id
    /\ next_violation_id' = next_violation_id

RestaurantCapReachedNow ==
    args.max_restaurants # None /\ Len(rest_out) >= args.max_restaurants[1]

\* C7: once the restaurant cap is reached, a valid in-range row of a
\* restaurant not yet admitted emits nothing; a row of a restaurant already
\* admitted leaves exactly the state the same iteration leaves with no
\* restaurant cap set.
C7_RestaurantCap ==
    [][ (BodyStep /\ RestaurantCapReachedNow
            /\ ~DateOutside(row') /\ ~InvalidRestaurant(row')) =>
          /\ Strip(row'.CSV_CAMIS) \notin seen_restaurants =>
                NothingEmitted /\ DedupUnchanged
          /\ Strip(row'.CSV_CAMIS) \in seen_restaurants =>
                ExState' = Iteration(ExState, [args EXCEPT !.max_restaurants = None], row')
      ]_vars

\* with the cap of 1 reached: a row of the admitted restaurant has just
\* emitted a new inspection, after a row of another restaurant was dropped
C7_Witness ==
    /\ args.max_restaurants = Some(1)
    /\ Len(history) = 3
    /\ history[1].outcome = "processed"
    /\ history[2].outcome = "restaurant_capped"
    /\ history[3].outcome = "processed" /\ history[3].is_new /\ history[3].violation_id # 0

\* C8 as stated: a row with an empty natural key, an empty name or an
\* unmappable borough emits nothing, leaves the dedup state and the id
\* counters alone and is counted as rejected.
C8_Original ==
    [][ (BodyStep /\ InvalidRestaurant(row')) =>
          /\ NothingEmitted /\ DedupUnchanged
          /\ stats'.rows_boro_filtered_out = stats.rows_boro_filtered_out + 1
      ]_vars

\* C8 as amended: such a row emits nothing and leaves the dedup state and
\* the id counters alone; it is counted as rejected when it passed the date
\* filter, and as date-filtered (not rejected) when it did not.
C8_InvalidRestaurantDropped ==
    [][ (BodyStep /\ InvalidRestaurant(row')) =>
          /\ NothingEmitted /\ DedupUnchanged
          /\ ~DateOutside(row') =>
                /\ stats'.rows_boro_filtered_out = stats.rows_boro_filtered_out + 1
                /\ stats'.rows_date_filtered_out = stats.rows_date_filtered_out
          /\ DateOutside(row') =>
                /\ stats'.rows_boro_filtered_out = stats.rows_boro_filtered_out
                /\ stats'.rows_date_filtered_out = stats.rows_date_filtered_out + 1
      ]_vars

\* after a row was written out, a row with an unmappable borough and a good
\* date was rejected
C8_Witness ==
    /\ Len(rest_out) >= 1 /\ Len(insp_out) >= 1
    /\ pc = "loop" /\ row # << >>
    /\ InvalidRestaurant(row) /\ ~DateOutside(row)
    /\ normalize_boro(row.CSV_BORO) = None /\ Strip(row.CSV_CAMIS) # << >>
    /\ LastOutcome = "rejected"
    /\ stats.rows_boro_filtered_out = 1

\* C9: a row whose inspection date is unparsable or outside [start, end]
\* emits nothing, leaves the dedup state and the id counters alone and adds
\* one to the date-filtered counter; a row dated exactly start or exactly
\* end is not filtered.
C9_DateFilter ==
    [][ BodyStep =>
          /\ DateOutside(row') =>
                /\ NothingEmitted /\ DedupUnchanged
                /\ stats'.rows_date_filtered_out = stats.rows_date_filtered_out + 1
          /\ parse_date_mdy(row'.CSV_INSPECTION_DATE) \in {args.start_date, args.end_date} =>
                /\ stats'.rows_date_filtered_out = stats.rows_date_filtered_out
                /\ history'[Len(history')].outcome # "date_filtered"
      ]_vars

\* a row dated the day before start was filtered, then a row dated exactly
\* end was written out
C9_Witness ==
    /\ Len(history) = 2
    /\ history[1].outcome = "date_filtered"
    /\ stats.rows_date_filtered_out = 1
    /\ row # << >>
    /\ parse_date_mdy(row.CSV_INSPECTION_DATE) = args.end_date
    /\ LastOutcome = "processed"
    /\ Len(insp_out) = 1

ViolationCapReachedNow ==
    args.max_violations # None /\ Len(viol_out) >= args.max_violations[1]

IssuedViolationIds == {viol_out[k].id : k \in DOMAIN viol_out}

\* C11: a row that reaches the violation step with a non-blank code,
\* description or critical flag, under the violation cap, yields exactly
\* one violation: its id was never issued before in the run and its
\* inspection_id is the id the index holds for the composite key of the
\* same row, the id of one emitted inspection; nothing is deduplicated,
\* two rows equal in every field yield two violations.
C11_ViolationsNeverDeduplicated ==
    [][ (BodyStep /\ history'[Len(history')].outcome = "processed"
            /\ AnyViolationField(row') /\ ~ViolationCapReachedNow) =>
          /\ Len(viol_out') = Len(viol_out) + 1
          /\ SubSeq(viol_out', 1, Len(viol_out)) = viol_out
          /\ viol_out'[Len(viol_out')].id \notin IssuedViolationIds
          /\ viol_out'[Len(viol_out')].id >= 1
          /\ viol_out'[Len(viol_out')].inspection_id =
                inspection_index'[inspection_key(Locals(row'))]
          /\ Cardinality({k \in DOMAIN insp_out' :
                 insp_out'[k].id = viol_out'[Len(viol_out')].inspection_id}) = 1
      ]_vars

\* two rows with one composite key gave two violations that differ in
\* nothing but their ids
C11_Witness ==
    /\ Len(history) = 2
    /\ history[1].key # << >> /\ history[1].key = history[2].key
    /\ Len(viol_out) = 2 /\ Len(insp_out) = 1
    /\ viol_out[1].id # viol_out[2].id
    /\ [viol_out[1] EXCEPT !.id = 0] = [viol_out[2] EXCEPT !.id = 0]
    /\ viol_out[1].inspection_id = insp_out[1].id

\* the number of scanned rows whose iteration ended the given way
RowsWith(outcomes) == Cardinality({i \in DOMAIN history : history[i].outcome \in outcomes})

CapDroppedRows == RowsWith({"restaurant_capped", "inspection_capped"})

ProcessedRows == RowsWith({"processed"})

\* the counters of rejections count the rejections and no cap-reached drop
RejectionsCounted ==
    /\ stats.rows_date_filtered_out = RowsWith({"date_filtered"})
    /\ stats.rows_boro_filtered_out = RowsWith({"rejected"})

\* C20 as stated: rows dropped by a reached restaurant or inspection cap are
\* kept apart from date-filtered and rejected rows, so that scanned rows =
\* date-filtered + rejected + cap-dropped + fully processed rows.
C20_Original ==
    /\ RejectionsCounted
    /\ stats.input_rows_scanned =
          stats.rows_date_filtered_out + stats.rows_boro_filtered_out
          + CapDroppedRows + ProcessedRows

\* the summary after a row that a reached cap dropped: the row is scanned,
\* and a restaurant it introduced before the inspection cap is written
CapDropSummary(written) ==
    [stats EXCEPT !.input_rows_scanned = @ + 1,
                  !.restaurants_written = @ + written]

\* what the summary does record of a cap-reached drop: it is counted in
\* neither rejection counter and in no counter of its own; it changes no
\* counter of the summary but the scanned rows (and
\* the restaurants written, when the inspection cap drops the row of a new
\* restaurant); the scanned rows are the date-filtered, the rejected, the
\* cap-dropped and the processed rows, plus the one row on which --limit
\* broke the loop.
C20_CapDropsNotCounted ==
    /\ [](RejectionsCounted)
    /\ [](stats.input_rows_scanned =
            stats.rows_date_filtered_out + stats.rows_boro_filtered_out
            + CapDroppedRows + ProcessedRows
            + (IF stats.input_rows_limited THEN 1 ELSE 0))
    /\ [][ (BodyStep /\ history'[Len(history')].outcome = "restaurant_capped") =>
             stats' = CapDropSummary(0) ]_vars
    /\ [][ (BodyStep /\ history'[Len(history')].outcome = "inspection_capped") =>
             stats' = CapDropSummary(Len(rest_out') - Len(rest_out)) ]_vars

\* three rows were scanned: one processed, one dropped by a reached cap,
\* one rejected; the summary counts one rejection
C20_Witness ==
    /\ Len(history) = 3
    /\ ProcessedRows = 1 /\ CapDroppedRows = 1
    /\ history[3].outcome = "rejected"
    /\ stats.input_rows_scanned = 3
    /\ stats.rows_boro_filtered_out = 1 /\ stats.rows_date_filtered_out = 0

\* the rows scanned after the first n left no trace in the three outputs
NoOutputAfter(n) ==
    \A i \in DOMAIN history : i > n => history[i].outcome = "limited"

\* C21 as stated: with --limit N, for every N >= 0, at most N rows are
\* scanned: no row after the N-th influences any output and the summary's
\* input_rows_scanned is at most N.
C21_Original ==
    args.limit # None =>
        /\ stats.input_rows_scanned <= args.limit[1]
        /\ NoOutputAfter(args.limit[1])

\* what --limit N does: for N >= 1 the loop breaks on row N + 1, which is
\* counted as scanned and emits nothing; --limit 0 is no limit at all
C21_BreaksOnTheNextRow ==
    /\ (args.limit # None /\ args.limit[1] > 0) =>
          /\ stats.input_rows_scanned <= args.limit[1] + 1
          /\ NoOutputAfter(args.limit[1])
          /\ stats.input_rows_limited <=> stats.input_rows_scanned = args.limit[1] + 1
    /\ (args.limit = None \/ args.limit = Some(0)) => ~stats.input_rows_limited

\* --limit 2 on three rows: the third row is counted and the loop has ended
C21_Witness ==
    /\ args.limit = Some(2)
    /\ Len(history) = 3
    /\ history[3].outcome = "limited"
    /\ stats.input_rows_scanned = 3
    /\ pc = "done"

\* restaurants.csv as written so far has a record with this camis
RestaurantEmitted(out, camis) == \E j \in DOMAIN out : out[j].camis = camis

\* inspections.csv as written so far has a record with this id
InspectionEmitted(out, id) == \E k \in DOMAIN out : out[k].id = id

\* the output old is a prefix of the output new: records are only appended
Extends(new, old) == Len(new) >= Len(old) /\ SubSeq(new, 1, Len(old)) = old

\* C23: in every state of a run, whatever the input, the caps and the
\* limit, every Inspection record written names in restraunt_camis the
\* camis of a Restaurant record written before it, and every Violation
\* record written names in inspection_id the id of an Inspection record
\* written before it; records once written stay written.
C23_ReferentiallyConsistent ==
    /\ [](\A k \in DOMAIN insp_out : RestaurantEmitted(rest_out, insp_out[k].restraunt_camis))
    /\ [](\A v \in DOMAIN viol_out : InspectionEmitted(insp_out, viol_out[v].inspection_id))
    /\ [][ /\ Extends(rest_out', rest_out)
           /\ Extends(insp_out', insp_out)
           /\ Extends(viol_out', viol_out) ]_vars

\* two restaurants, two inspections and three violations were written; one
\* restaurant has a CAMIS of 11 characters, written cut to 10 in both files
C23_Witness ==
    /\ Len(rest_out) = 2 /\ Len(insp_out) = 2 /\ Len(viol_out) = 3
    /\ LongCamisA \in seen_restaurants
    /\ \E k \in DOMAIN insp_out : insp_out[k].restraunt_camis = Take(LongCamisA, CamisMaxLen)
    /\ \E v \in DOMAIN viol_out : viol_out[v].inspection_id = 2

\* the seven fields of an Inspection record that the composite key stands for
Written(rec) ==
    << rec.restraunt_camis, rec.inspection_date, rec.inspection_type, rec.action,
       rec.score, rec.grade, rec.grade_date >>

\* C24 as stated: no two Inspection records written agree on all of
\* restraunt_camis, inspection_date, inspection_type, action, score, grade
\* and grade_date as written (the dedup key is made of the sanitized and
\* truncated values that are written).
C24_Original ==
    \A i, j \in DOMAIN insp_out :
        i # j => Written(insp_out[i]) # Written(insp_out[j])

\* what the dedup does guarantee: one record per composite key of the
\* index, which is made of the stripped values before sanitize_text and
\* before truncation
C24_OneRecordPerRawKey ==
    /\ Len(insp_out) = Cardinality(DOMAIN inspection_index)
    /\ \A key \in DOMAIN inspection_index :
          Cardinality(InspectionRows(inspection_index[key])) = 1

\* two records of inspections.csv with different ids and the same seven
\* fields, written for two rows whose composite keys differ
C24_Witness ==
    /\ Len(insp_out) = 2
    /\ Written(insp_out[1]) = Written(insp_out[2])
    /\ insp_out[1].id # insp_out[2].id
    /\ Cardinality(DOMAIN inspection_index) = 2

InspectionCapReachedNow ==
    args.max_inspections # None /\ Len(insp_out) >= args.max_inspections[1]

\* the ids an earlier row of the run was given for this composite key
IdsAssigned(key) ==
    {history[i].inspection_id : i \in {j \in DOMAIN history : history[j].key = key}} \ {0}

\* the step took the row through the date filter and the validation
PassedStep == BodyStep /\ history'[Len(history')].key # << >>

\* C25: once the inspection cap is reached, a row whose composite key was
\* assigned an id earlier emits no Inspection and, when it carries a
\* violation field and the violation cap is not reached, one Violation with
\* that id; a row with a new composite key emits no Inspection and no
\* Violation, and neither kind of row consumes an inspection id.
C25_AfterInspectionCap ==
    [][ (PassedStep /\ InspectionCapReachedNow) =>
          /\ insp_out' = insp_out
          /\ next_inspection_id' = next_inspection_id
          /\ inspection_index' = inspection_index
          /\ IF IdsAssigned(history'[Len(history')].key) # {}
             THEN IF AnyViolationField(row') /\ ~ViolationCapReachedNow
                  THEN /\ Len(viol_out') = Len(viol_out) + 1
                       /\ SubSeq(viol_out', 1, Len(viol_out)) = viol_out
                       /\ IdsAssigned(history'[Len(history')].key)
                             = {viol_out'[Len(viol_out')].inspection_id}
                       /\ viol_out'[Len(viol_out')].id = next_violation_id
                       /\ next_violation_id' = next_violation_id + 1
                  ELSE viol_out' = viol_out /\ next_violation_id' = next_violation_id
             ELSE /\ viol_out' = viol_out
                  /\ next_violation_id' = next_violation_id
                  /\ history'[Len(history')].inspection_id = 0 ]_vars

\* --max-inspections 1: the first row got id 1, the second row had a new
\* key and was dropped, the third row had the key of the first and its
\* violation was written with inspection id 1
C25_Witness ==
    /\ args.max_inspections = Some(1)
    /\ Len(history) = 3
    /\ history[2].outcome = "inspection_capped"
    /\ history[3].outcome = "processed" /\ history[3].key = history[1].key
    /\ Len(insp_out) = 1 /\ Len(viol_out) = 2
    /\ viol_out[2].inspection_id = 1 /\ viol_out[2].id = 2
    /\ next_inspection_id = 2

\* the ids of the records of an output file, in the order written
IdsOf(out) == [k \in DOMAIN out |-> out[k].id]

\* 1, 2, .., n in this order
Counting(n) == [k \in 1..n |-> k]

\* C26: in every state of a run the Inspection ids written so far are
\* 1..inspections_written and the Violation ids written so far are
\* 1..violations_written, each once and in increasing order; each counter
\* holds the next unused id, so that a row that is filtered, rejected or
\* dropped by a cap consumes none; restaurants_written is the number of
\* distinct natural keys admitted.
C26_IdentifierIssuance ==
    /\ [](/\ IdsOf(insp_out) = Counting(stats.inspections_written)
          /\ IdsOf(viol_out) = Counting(stats.violations_written)
          /\ next_inspection_id = stats.inspections_written + 1
          /\ next_violation_id = stats.violations_written + 1
          /\ stats.restaurants_written = Cardinality(seen_restaurants)
          /\ stats.restaurants_written = Len(rest_out))
    /\ [][ (Len(history') = Len(history) + 1
              /\ history'[Len(history')].outcome # "processed") =>
             /\ next_inspection_id' = next_inspection_id
             /\ next_violation_id' = next_violation_id ]_vars

\* three rows were scanned and the second was rejected: two restaurants
\* were admitted, inspections 1 and 2 and violations 1 and 2 were written
C26_Witness ==
    /\ Len(history) = 3
    /\ history[2].outcome = "rejected"
    /\ IdsOf(insp_out) = << 1, 2 >>
    /\ IdsOf(viol_out) = << 1, 2 >>
    /\ next_inspection_id = 3 /\ next_violation_id = 3
    /\ stats.restaurants_written = 2

\* sanitize the raw value, then cut the result to the declared maximum
SanitizedThenCut(raw, max) == Take(sanitize_text(raw, args.ascii), max)

\* the record appended to an output by the step, if the step appended one
Appended(new, old) == Len(new) = Len(old) + 1

\* no text field of a written record is longer than its declared maximum
WithinDeclaredLengths ==
    /\ \A k \in DOMAIN rest_out :
          /\ Len(rest_out[k].name) <= NameMaxLen
          /\ Len(rest_out[k].building) <= BuildingMaxLen
          /\ Len(rest_out[k].street) <= StreetMaxLen
          /\ Len(rest_out[k].cuisine) <= CuisineMaxLen
    /\ \A k \in DOMAIN insp_out :
          /\ Len(insp_out[k].inspection_type) <= InspectionTypeMaxLen
          /\ Len(insp_out[k].action) <= ActionMaxLen
    /\ \A k \in DOMAIN viol_out : Len(viol_out[k].code) <= CodeMaxLen

\* C27 as stated: every text field written is the raw value sanitized and
\* then truncated to the declared maximum of the field (name 255, building
\* 20, street 255, cuisine 100, inspection_type 50, action 255, code 20),
\* and so no text field written is longer than its declared maximum.
C27_Original ==
    /\ [](WithinDeclaredLengths)
    /\ [][ Appended(rest_out', rest_out) =>
             /\ rest_out'[Len(rest_out')].name = SanitizedThenCut(row'.CSV_DBA, NameMaxLen)
             /\ rest_out'[Len(rest_out')].building
                   = SanitizedThenCut(row'.CSV_BUILDING, BuildingMaxLen)
             /\ rest_out'[Len(rest_out')].street = SanitizedThenCut(row'.CSV_STREET, StreetMaxLen)
             /\ rest_out'[Len(rest_out')].cuisine
                   = SanitizedThenCut(row'.CSV_CUISINE, CuisineMaxLen) ]_vars
    /\ [][ Appended(insp_out', insp_out) =>
             /\ insp_out'[Len(insp_out')].inspection_type
                   = SanitizedThenCut(row'.CSV_INSPECTION_TYPE, InspectionTypeMaxLen)
             /\ insp_out'[Len(insp_out')].action
                   = SanitizedThenCut(row'.CSV_ACTION, ActionMaxLen) ]_vars
    /\ [][ Appended(viol_out', viol_out) =>
             viol_out'[Len(viol_out')].code
                 = SanitizedThenCut(row'.CSV_VIOLATION_CODE, CodeMaxLen) ]_vars

\* what the writer does: the stripped raw value is cut first and sanitized
\* afterwards; without --ascii the result is within the declared maximum
C27_CutThenSanitized ==
    /\ [](~args.ascii => WithinDeclaredLengths)
    /\ [][ Appended(rest_out', rest_out) =>
             rest_out'[Len(rest_out')].building
                 = sanitize_text(Take(Strip(row'.CSV_BUILDING), BuildingMaxLen), args.ascii) ]_vars

\* --ascii: the building written has 21 characters, one more than declared
C27_Witness ==
    /\ args.ascii
    /\ rest_out # << >>
    /\ Len(rest_out[1].building) = BuildingMaxLen + 1
    /\ row.CSV_BUILDING = LigatureBuilding

\* no two records of restaurants.csv have the same camis
CamisWrittenOnce ==
    \A i, j \in DOMAIN rest_out : i # j => rest_out[i].camis # rest_out[j].camis

\* C29 as stated: no two records of the restaurant output carry the same
\* camis (the natural key as written, cut to 10 characters), whatever the
\* input, and the record of a key is the one written for the first admitted
\* row of the key: it is never rewritten.
C29_Original ==
    /\ [](CamisWrittenOnce)
    /\ [][Extends(rest_out', rest_out)]_vars

\* what the restaurant step guarantees: one record per stripped CAMIS seen,
\* never rewritten; the camis written are distinct as long as no CAMIS of
\* the input is longer than 10 characters
C29_OncePerStrippedKey ==
    /\ [](Len(rest_out) = Cardinality(seen_restaurants))
    /\ []((\A c \in seen_restaurants : Len(c) <= CamisMaxLen) => CamisWrittenOnce)
    /\ [][Extends(rest_out', rest_out)]_vars

\* two CAMIS of 11 characters were admitted and restaurants.csv has two
\* records with the same camis of 10 characters
C29_Witness ==
    /\ {LongCamisA, LongCamisB} \subseteq seen_restaurants
    /\ Len(rest_out) = 2
    /\ rest_out[1].camis = rest_out[2].camis
    /\ Len(rest_out[1].camis) = CamisMaxLen

\* inspections.csv as written so far has a record of this restaurant
HasInspection(camis) == \E k \in DOMAIN insp_out : insp_out[k].restraunt_camis = camis

\* C30 as stated: every Restaurant record written has at least one
\* Inspection record written for it in the same run, whatever the input and
\* the caps: the row that admits a restaurant also emits an inspection.
C30_Original == \A j \in DOMAIN rest_out : HasInspection(rest_out[j].camis)

\* C30 as amended: the row that admits a restaurant also emits an
\* inspection of it unless the inspection cap is already reached, in which
\* case the restaurant record is written and the row is dropped without an
\* inspection; with no inspection cap every Restaurant record written has
\* an Inspection record.
C30_InspectionUnlessCapped ==
    /\ [](args.max_inspections = None =>
            \A j \in DOMAIN rest_out : HasInspection(rest_out[j].camis))
    /\ [][ Appended(rest_out', rest_out) =>
             IF InspectionCapReachedNow
             THEN /\ insp_out' = insp_out /\ viol_out' = viol_out
                  /\ history'[Len(history')].outcome = "inspection_capped"
             ELSE /\ Appended(insp_out', insp_out)
                  /\ insp_out'[Len(insp_out')].restraunt_camis
                        = rest_out'[Len(rest_out')].camis ]_vars

\* --max-inspections 1: the second restaurant was admitted after the cap
\* was reached; its record is written and it has no inspection
C30_Witness ==
    /\ args.max_inspections = Some(1) /\ args.max_restaurants = None
    /\ Len(rest_out) = 2 /\ Len(insp_out) = 1
    /\ HasInspection(rest_out[1].camis)
    /\ ~HasInspection(rest_out[2].camis)
    /\ history[Len(history)].outcome = "inspection_capped"

----------------------------------------------------------------------------
(* Loader: value parsers of import_inspection_csvs.py *)

NoneIfEmpty(s) == IF s = << >> THEN None ELSE Some(s)

\* _blank_to_none: None for an absent or blank cell, else Some(stripped text)
blank_to_none(value) == NoneIfEmpty(Strip(value))

\* "x or ''" on the result of _blank_to_none
OrEmpty(x) == IF x = None THEN << >> ELSE x[1]

\* a call that raised ValueError, and a call that returned v
Raised == [raised |-> TRUE, value |-> None]

Returned(v) == [raised |-> FALSE, value |-> v]

IntOrRaise(n) == IF n = None THEN Raised ELSE Returned(n)

ParseIntOf(s) == IF s = None THEN Returned(None) ELSE IntOrRaise(PyInt(s[1]))

\* _parse_int: None for a blank cell, else int(s), which may raise
parse_int(value) == ParseIntOf(blank_to_none(value))

\* the text has the shape YYYY-MM-DD
IsoShape(s) ==
    /\ Len(s) = 10
    /\ s[5] = "-" /\ s[8] = "-"
    /\ \A k \in {1, 2, 3, 4, 6, 7, 9, 10} : IsDigit(s[k])

DateOrRaise(y, m, d) == IF ValidDate(y, m, d) THEN Returned(<< y, m, d >>) ELSE Raised

\* date.fromisoformat(s) for the format the command expects
FromIsoFormat(s) ==
    IF ~IsoShape(s) THEN Raised
    ELSE DateOrRaise(DigitsValue(SubSeq(s, 1, 4), 0),
                     DigitsValue(SubSeq(s, 6, 7), 0),
                     DigitsValue(SubSeq(s, 9, 10), 0))

ParseDateOf(s) == IF s = None THEN Returned(None) ELSE FromIsoFormat(s[1])

\* _parse_date: None for a blank cell, else date.fromisoformat(s), which may raise
parse_date(value) == ParseDateOf(blank_to_none(value))

----------------------------------------------------------------------------
(* Loader: files, headers and storage *)

Range(f) == {f[k] : k \in DOMAIN f}

RestaurantColumns ==
    << "camis", "name", "boro", "building", "street", "zipcode", "phone", "cuisine" >>

InspectionColumns ==
    << "id", "restraunt_camis", "inspection_date", "inspection_type", "action",
       "score", "grade", "grade_date" >>

ViolationColumns == << "id", "inspection_id", "code", "description", "critical_flag" >>

Phases == << "restaurants", "inspections", "violations" >>

\* the "expected" list of each phase
Expected(p) ==
    CASE p = "restaurants" -> RestaurantColumns
      [] p = "inspections" -> InspectionColumns
      [] p = "violations"  -> ViolationColumns

\* HeaderError that only looks for a header row
HeaderError_AnyColumns(actual_fields, expected_fields) == actual_fields = << >>

\* _validate_headers raises CommandError: no header row, or a column missing
HeaderError(actual_fields, expected_fields) ==
    \/ actual_fields = << >>
    \/ \E f \in Range(expected_fields) : f \notin Range(actual_fields)

\* _resolve_paths raises CommandError: one of the three paths does not exist
PathMissing(fs) == \E p \in Range(Phases) : ~fs[p].exists

\* a table maps primary keys to the other fields; this one has no rows
EmptyTable == << >>

EmptyDb == [restraunt |-> EmptyTable, inspection |-> EmptyTable, violation |-> EmptyTable]

\* the table with the row of key pk created, or overwritten in every field
Upsert(table, pk, defaults) ==
    [k \in DOMAIN table \cup {pk} |-> IF k = pk THEN defaults ELSE table[k]]

\* Restraunt.objects.update_or_create(camis=camis, defaults=defaults)
Restraunt_update_or_create(table, camis, defaults) == Upsert(table, camis, defaults)

\* Inspection_update_or_create as get_or_create: an existing record is kept
Inspection_get_or_create(table, pk, defaults) ==
    IF pk \in DOMAIN table THEN table ELSE Upsert(table, pk, defaults)

\* Inspection.objects.update_or_create(id=pk, defaults=defaults)
Inspection_update_or_create(table, pk, defaults) == Upsert(table, pk, defaults)

\* the largest key of a table of integer keys, 0 for an empty table
MaxKey(table) ==
    IF DOMAIN table = {} THEN 0
    ELSE CHOOSE k \in DOMAIN table : \A j \in DOMAIN table : j <= k

\* Violation_update_or_create that ignores the id of the row and creates a
\* record under the next free id
Violation_update_or_create_AlwaysCreates(table, pk, defaults) ==
    Upsert(table, MaxKey(table) + 1, defaults)

\* Violation.objects.update_or_create(id=pk, defaults=defaults)
Violation_update_or_create(table, pk, defaults) == Upsert(table, pk, defaults)

\* RestrauntDoesNotExist that finds every key
RestrauntDoesNotExist_Never(table, camis) == FALSE

\* Restraunt.objects.get(pk=camis) raises Restraunt.DoesNotExist
RestrauntDoesNotExist(table, camis) == camis \notin DOMAIN table

\* Inspection.objects.get(pk=inspection_id) raises Inspection.DoesNotExist
InspectionDoesNotExist(table, inspection_id) == inspection_id \notin DOMAIN table

\* Violation.objects.all().delete()
DeleteViolations(t) == [t EXCEPT !.violation = EmptyTable]

\* the rows of a child table whose parent survives a delete of every row of
\* the parent table (on_delete=CASCADE): none that has a parent
Orphans(child, fk, parent) ==
    [k \in {j \in DOMAIN child : child[j][fk] \notin DOMAIN parent} |-> child[k]]

\* Inspection.objects.all().delete(), cascading to Violation
DeleteInspections(t) ==
    [t EXCEPT !.inspection = EmptyTable,
              !.violation = Orphans(t.violation, "inspection", t.inspection)]

\* DeleteRestraunts that deletes nothing
DeleteRestraunts_Nothing(t) == t

\* Restraunt.objects.all().delete(), cascading to Inspection
DeleteRestraunts(t) ==
    [t EXCEPT !.restraunt = EmptyTable,
              !.inspection = Orphans(t.inspection, "restraunt", t.restraunt)]

----------------------------------------------------------------------------
(* Loader: one row of each phase *)

\* "if not camis: raise ValueError"
RestaurantRowFails(r) == blank_to_none(r.camis) = None

\* the defaults dict of _import_restaurants
RestaurantDefaults(r) ==
    [ name     |-> OrEmpty(blank_to_none(r.name)),
      boro     |-> OrEmpty(blank_to_none(r.boro)),
      building |-> OrEmpty(blank_to_none(r.building)),
      street   |-> OrEmpty(blank_to_none(r.street)),
      zipcode  |-> blank_to_none(r.zipcode),
      phone    |-> blank_to_none(r.phone),
      cuisine  |-> blank_to_none(r.cuisine) ]

\* the try block of _import_inspections.do_import raises: a missing or
\* unparsable id, a missing or unknown restaurant, an unparsable date or
\* score, or a null inspection_date refused by the NOT NULL column
InspectionFails(t, pk, camis, inspection_date, score, grade_date) ==
    \/ pk.raised \/ pk.value = None
    \/ camis = None
    \/ RestrauntDoesNotExist(t.restraunt, camis[1])
    \/ inspection_date.raised \/ score.raised \/ grade_date.raised
    \/ inspection_date.value = None

InspectionRowFails(t, r) ==
    InspectionFails(t, parse_int(r.id), blank_to_none(r.restraunt_camis),
                    parse_date(r.inspection_date), parse_int(r.score),
                    parse_date(r.grade_date))

\* the defaults dict of _import_inspections
InspectionDefaults(r) ==
    [ restraunt       |-> blank_to_none(r.restraunt_camis)[1],
      inspection_date |-> parse_date(r.inspection_date).value,
      inspection_type |-> OrEmpty(blank_to_none(r.inspection_type)),
      action          |-> OrEmpty(blank_to_none(r.action)),
      score           |-> parse_int(r.score).value,
      grade           |-> blank_to_none(r.grade),
      grade_date      |-> parse_date(r.grade_date).value ]

\* the try block of _import_violations.do_import raises
ViolationFails(t, pk, inspection_id) ==
    \/ pk.raised \/ pk.value = None
    \/ inspection_id.raised \/ inspection_id.value = None
    \/ InspectionDoesNotExist(t.inspection, inspection_id.value[1])

ViolationRowFails(t, r) == ViolationFails(t, parse_int(r.id), parse_int(r.inspection_id))

CriticalFlagOrDefault(x) == IF x = None THEN NotApplicable ELSE x[1]

\* the defaults dict of _import_violations
ViolationDefaults(r) ==
    [ inspection    |-> parse_int(r.inspection_id).value[1],
      code          |-> blank_to_none(r.code),
      description   |-> blank_to_none(r.description),
      critical_flag |-> CriticalFlagOrDefault(blank_to_none(r.critical_flag)) ]

\* the dry-run loop of _import_inspections: _parse_int raises outside any try
DryInspectionRaises(pk) == pk.raised

DryInspectionFails(pk, camis) == pk.value = None \/ camis = None

\* the dry-run loop of _import_violations: "or" evaluates the second
\* _parse_int only when the first returned an int
DryViolationRaises(pk, inspection_id) ==
    pk.raised \/ (pk.value # None /\ inspection_id.raised)

DryViolationFails(pk, inspection_id) == pk.value = None \/ inspection_id.value = None

----------------------------------------------------------------------------
(* Loader: inputs *)

Camis41 == << "4", "1" >>

Camis42 == << "4", "2" >>

Camis99 == << "9", "9" >>

IsoDay == << "2", "0", "2", "3", "-", "0", "1", "-", "1", "5" >>

RestA ==
    [ camis |-> Camis41, name |-> << "D" >>, boro |-> Queens, building |-> << "1" >>,
      street |-> << "S" >>, zipcode |-> << "7" >>, phone |-> << >>, cuisine |-> << "T" >> ]

\* the key of RestA with surrounding blanks, other values, blank optional fields
RestA2 ==
    [ RestA EXCEPT !.camis = << " ", "4", "1", " " >>, !.name = << "E" >>,
                   !.building = << >>, !.zipcode = << " " >>, !.cuisine = << >> ]

RestB == [ RestA EXCEPT !.camis = Camis42, !.name = << "F" >> ]

RestNoCamis == [ RestA EXCEPT !.camis = << " " >> ]

RestNoName == [ RestB EXCEPT !.name = << >> ]

RestNoBoro == [ RestA EXCEPT !.boro = << " " >> ]

\* a borough that is none of the five
RestBadBoro == [ RestB EXCEPT !.boro = << "Q" >> ]

InspA ==
    [ id |-> << "1" >>, restraunt_camis |-> Camis41, inspection_date |-> IsoDay,
      inspection_type |-> << "C" >>, action |-> << "V" >>, score |-> << "1", "3" >>,
      grade |-> << "A" >>, grade_date |-> IsoDay ]

\* the id of InspA written "01", another parent, blank optional fields
InspA2 ==
    [ InspA EXCEPT !.id = << "0", "1" >>, !.restraunt_camis = Camis42,
                   !.score = << >>, !.grade = << >>, !.grade_date = << >> ]

InspOrphan == [ InspA EXCEPT !.id = << "2" >>, !.restraunt_camis = Camis99 ]

InspBadDate ==
    [ InspA EXCEPT !.id = << "3" >>,
                   !.inspection_date = << "0", "1", "/", "1", "5", "/", "2", "0", "2", "3" >> ]

InspNoDate == [ InspA EXCEPT !.id = << "3" >>, !.inspection_date = << >> ]

InspBadId == [ InspA EXCEPT !.id = << "x" >> ]

InspNoId == [ InspA EXCEPT !.id = << >> ]

ViolA ==
    [ id |-> << "1" >>, inspection_id |-> << "1" >>, code |-> << "1", "0", "F" >>,
      description |-> << "d" >>, critical_flag |-> Critical ]

\* the id of ViolA, another parent, blank optional fields
ViolA2 ==
    [ ViolA EXCEPT !.inspection_id = << "2" >>, !.code = << >>,
                   !.description = << >>, !.critical_flag = << >> ]

ViolOrphan == [ ViolA EXCEPT !.id = << "2" >>, !.inspection_id = << "9" >> ]

ViolBadParent == [ ViolA EXCEPT !.inspection_id = << "x" >> ]

ViolNoId == [ ViolA EXCEPT !.id = << >> ]

File(fieldnames, rows) == [exists |-> TRUE, fieldnames |-> fieldnames, rows |-> rows]

NoFile == [exists |-> FALSE, fieldnames |-> << >>, rows |-> << >>]

RestaurantFiles ==
    { NoFile,
      File(<< >>, << >>),
      File(SubSeq(RestaurantColumns, 1, 7), << RestA >>),
      File(RestaurantColumns, << >>),
      File(RestaurantColumns, << RestA >>),
      File(RestaurantColumns, << RestA, RestA2 >>),
      File(RestaurantColumns, << RestNoCamis, RestA >>),
      File(RestaurantColumns, << RestA, RestB >>),
      File(RestaurantColumns, << RestNoName, RestNoBoro >>),
      File(RestaurantColumns, << RestBadBoro >>) }

InspectionFiles ==
    { NoFile,
      File(Tail(InspectionColumns), << InspA >>),
      File(InspectionColumns, << InspA >>),
      File(InspectionColumns, << InspA, InspA2 >>),
      File(InspectionColumns, << InspOrphan, InspA >>),
      File(InspectionColumns, << InspA, InspBadDate >>),
      File(InspectionColumns, << InspNoDate, InspOrphan >>),
      File(InspectionColumns, << InspBadId, InspA >>),
      File(InspectionColumns, << InspA, InspNoId >>) }

ViolationFiles ==
    { NoFile,
      File(<< >>, << >>),
      File(ViolationColumns, << ViolA >>),
      File(ViolationColumns, << ViolA, ViolA2 >>),
      File(ViolationColumns, << ViolOrphan, ViolA >>),
      File(ViolationColumns, << ViolA, ViolBadParent >>),
      File(ViolationColumns, << ViolNoId, ViolA >>) }

\* storage left by earlier loads: restaurants 42 and 99, an inspection of
\* each, a violation of each inspection
StoredDb ==
    [ restraunt  |-> [ k \in {Camis42, Camis99} |->
                         [ name |-> << "O" >>, boro |-> Manhattan, building |-> << "9" >>,
                           street |-> << "P" >>, zipcode |-> Some(<< "8" >>),
                           phone |-> Some(<< "5" >>), cuisine |-> None ] ],
      inspection |-> [ k \in {1, 9} |->
                         [ restraunt |-> IF k = 1 THEN Camis42 ELSE Camis99,
                           inspection_date |-> << 2022, 6, 1 >>,
                           inspection_type |-> << "R" >>, action |-> << "N" >>,
                           score |-> Some(7), grade |-> Some(<< "B" >>),
                           grade_date |-> << 2022, 6, 1 >> ] ],
      violation  |-> [ k \in {1, 7} |->
                         [ inspection |-> IF k = 1 THEN 1 ELSE 9,
                           code |-> Some(<< "0", "4", "L" >>),
                           description |-> Some(<< "m" >>),
                           critical_flag |-> NotCritical ] ] ]

InitialDbs == { EmptyDb, StoredDb }

OptionsSet == [dry_run : BOOLEAN, truncate : BOOLEAN, strict : BOOLEAN]

NoError == [phase |-> "", line_no |-> 0]

----------------------------------------------------------------------------
(* Loader: the state machine of Command.handle, run twice *)

ImportPc(p) == CASE p = "restaurants" -> "import_restaurants"
                 [] p = "inspections" -> "import_inspections"
                 [] p = "violations"  -> "import_violations"

\* where handle goes after the phase p
AfterPhase(p) == CASE p = "restaurants" -> "import_inspections"
                   [] p = "inspections" -> "import_violations"
                   [] p = "violations"  -> "complete"

Ended == lpc \in {"complete", "command_error", "uncaught"}

\* the state in which handle is entered
Entered(d) ==
    /\ db = d /\ tx = d /\ db_at_start = d /\ db_at_phase = d
    /\ lpc = "handle"
    /\ line_no = 0
    /\ counts = [restaurants |-> 0, inspections |-> 0, violations |-> 0]
    /\ failures = << >>
    /\ error = NoError
    /\ phases = << >>

LdInit ==
    /\ options \in OptionsSet
    /\ files \in [restaurants : RestaurantFiles, inspections : InspectionFiles,
                  violations : ViolationFiles]
    /\ \E d \in InitialDbs : Entered(d)
    /\ run = 1
    /\ first_run_db = EmptyDb
    /\ ExIdle

\* TruncateFirst that does not look at --dry-run
TruncateFirst_InDryRun(o) == o.truncate

\* TruncateFirst that does not look at --truncate
TruncateFirst_Always(o) == ~o.dry_run

\* "if truncate and not dry_run"
TruncateFirst(o) == o.truncate /\ ~o.dry_run

\* handle up to the first phase: _resolve_paths, then the truncate test
ResolvePaths ==
    /\ lpc = "handle"
    /\ IF PathMissing(files)
       THEN lpc' = "command_error" /\ error' = [phase |-> "paths", line_no |-> 0]
       ELSE /\ lpc' = IF TruncateFirst(options)
                      THEN "truncate_violations" ELSE "import_restaurants"
            /\ error' = error
    /\ UNCHANGED << options, files, db, tx, line_no, counts, failures, phases,
                    run, db_at_start, db_at_phase, first_run_db, exVars >>

\* _truncate_all, first delete, inside transaction.atomic()
TruncateViolations ==
    /\ lpc = "truncate_violations"
    /\ tx' = DeleteViolations(tx)
    /\ lpc' = "truncate_inspections"
    /\ UNCHANGED << options, files, db, line_no, counts, failures, error, phases,
                    run, db_at_start, db_at_phase, first_run_db, exVars >>

\* _truncate_all, second delete
TruncateInspections ==
    /\ lpc = "truncate_inspections"
    /\ tx' = DeleteInspections(tx)
    /\ lpc' = "truncate_restraunts"
    /\ UNCHANGED << options, files, db, line_no, counts, failures, error, phases,
                    run, db_at_start, db_at_phase, first_run_db, exVars >>

\* _truncate_all, third delete
TruncateRestraunts ==
    /\ lpc = "truncate_restraunts"
    /\ tx' = DeleteRestraunts(tx)
    /\ lpc' = "truncate_commit"
    /\ UNCHANGED << options, files, db, line_no, counts, failures, error, phases,
                    run, db_at_start, db_at_phase, first_run_db, exVars >>

\* _truncate_all, the end of the with block: the transaction commits
TruncateCommit ==
    /\ lpc = "truncate_commit"
    /\ db' = tx
    /\ lpc' = "import_restaurants"
    /\ UNCHANGED << options, files, tx, line_no, counts, failures, error, phases,
                    run, db_at_start, db_at_phase, first_run_db, exVars >>

\* the start of _import_<p>: the file is opened and its header validated
BeginPhase(p) ==
    /\ lpc = ImportPc(p)
    /\ phases' = Append(phases, p)
    /\ db_at_phase' = db
    /\ IF HeaderError(files[p].fieldnames, Expected(p))
       THEN /\ lpc' = "command_error"
            /\ error' = [phase |-> p, line_no |-> 1]
            /\ UNCHANGED line_no
       ELSE /\ lpc' = p
            /\ line_no' = 2
            /\ UNCHANGED error
    /\ UNCHANGED << options, files, db, tx, counts, failures,
                    run, db_at_start, first_run_db, exVars >>

\* RowProcessed without the atomic block: every row is committed as written
RowProcessed_Autocommit(p, t) ==
    /\ tx' = t
    /\ db' = t
    /\ counts' = [counts EXCEPT ![p] = @ + 1]
    /\ line_no' = line_no + 1
    /\ UNCHANGED << lpc, failures, error >>

\* the row was processed: it is counted, its write (if any) is in t
RowProcessed(p, t) ==
    /\ tx' = t
    /\ counts' = [counts EXCEPT ![p] = @ + 1]
    /\ line_no' = line_no + 1
    /\ UNCHANGED << lpc, failures, error, db >>

\* RowFailed without the atomic block: strict raises, and the rows written
\* earlier in the phase stay written
RowFailed_NoRollback(p) ==
    IF options.strict
    THEN /\ lpc' = "command_error"
         /\ error' = [phase |-> p, line_no |-> line_no]
         /\ db' = tx
         /\ UNCHANGED << line_no, counts, failures, tx >>
    ELSE /\ failures' = Append(failures, << p, line_no >>)
         /\ line_no' = line_no + 1
         /\ UNCHANGED << lpc, counts, error, tx, db >>

\* RowFailed as if the whole run were one transaction: strict raises, and
\* what the earlier phases committed is undone too
RowFailed_UndoesRun(p) ==
    IF options.strict
    THEN /\ lpc' = "command_error"
         /\ error' = [phase |-> p, line_no |-> line_no]
         /\ tx' = db_at_start /\ db' = db_at_start
         /\ UNCHANGED << line_no, counts, failures >>
    ELSE /\ failures' = Append(failures, << p, line_no >>)
         /\ line_no' = line_no + 1
         /\ UNCHANGED << lpc, counts, error, tx, db >>

\* the row failed: strict raises CommandError, which leaves the atomic block
\* and rolls the phase back; lenient writes a warning and goes on
RowFailed(p) ==
    IF options.strict
    THEN /\ lpc' = "command_error"
         /\ error' = [phase |-> p, line_no |-> line_no]
         /\ tx' = db
         /\ UNCHANGED << line_no, counts, failures, db >>
    ELSE /\ failures' = Append(failures, << p, line_no >>)
         /\ line_no' = line_no + 1
         /\ UNCHANGED << lpc, counts, error, tx, db >>

\* the dry-run loop let a ValueError escape handle
RowRaised(p) ==
    /\ lpc' = "uncaught"
    /\ error' = [phase |-> p, line_no |-> line_no]
    /\ UNCHANGED << line_no, counts, failures, tx, db >>

HasRow(p) == line_no - 1 <= Len(files[p].rows)

CurrentRow(p) == files[p].rows[line_no - 1]

\* one row of restaurants.csv, in do_import or in the dry-run loop
ImportRestaurantRow ==
    /\ lpc = "restaurants" /\ HasRow("restaurants")
    /\ IF RestaurantRowFails(CurrentRow("restaurants"))
       THEN RowFailed("restaurants")
       ELSE IF options.dry_run
       THEN RowProcessed("restaurants", tx)
       ELSE RowProcessed("restaurants",
              [tx EXCEPT !.restraunt =
                  Restraunt_update_or_create(@,
                      blank_to_none(CurrentRow("restaurants").camis)[1],
                      RestaurantDefaults(CurrentRow("restaurants")))])
    /\ UNCHANGED << options, files, phases, run, db_at_start, db_at_phase, first_run_db, exVars >>

\* one row of inspections.csv in the dry-run loop
DryInspectionRow(pk, camis) ==
    IF DryInspectionRaises(pk) THEN RowRaised("inspections")
    ELSE IF DryInspectionFails(pk, camis) THEN RowFailed("inspections")
    ELSE RowProcessed("inspections", tx)

\* one row of inspections.csv, in do_import or in the dry-run loop
ImportInspectionRow ==
    /\ lpc = "inspections" /\ HasRow("inspections")
    /\ IF options.dry_run
       THEN DryInspectionRow(parse_int(CurrentRow("inspections").id),
                             blank_to_none(CurrentRow("inspections").restraunt_camis))
       ELSE IF InspectionRowFails(tx, CurrentRow("inspections"))
       THEN RowFailed("inspections")
       ELSE RowProcessed("inspections",
              [tx EXCEPT !.inspection =
                  Inspection_update_or_create(@,
                      parse_int(CurrentRow("inspections").id).value[1],
                      InspectionDefaults(CurrentRow("inspections")))])
    /\ UNCHANGED << options, files, phases, run, db_at_start, db_at_phase, first_run_db, exVars >>

\* one row of violations.csv in the dry-run loop
DryViolationRow(pk, inspection_id) ==
    IF DryViolationRaises(pk, inspection_id) THEN RowRaised("violations")
    ELSE IF DryViolationFails(pk, inspection_id) THEN RowFailed("violations")
    ELSE RowProcessed("violations", tx)

\* one row of violations.csv, in do_import or in the dry-run loop
ImportViolationRow ==
    /\ lpc = "violations" /\ HasRow("violations")
    /\ IF options.dry_run
       THEN DryViolationRow(parse_int(CurrentRow("violations").id),
                            parse_int(CurrentRow("violations").inspection_id))
       ELSE IF ViolationRowFails(tx, CurrentRow("violations"))
       THEN RowFailed("violations")
       ELSE RowProcessed("violations",
              [tx EXCEPT !.violation =
                  Violation_update_or_create(@,
                      parse_int(CurrentRow("violations").id).value[1],
                      ViolationDefaults(CurrentRow("violations")))])
    /\ UNCHANGED << options, files, phases, run, db_at_start, db_at_phase, first_run_db, exVars >>

\* EndPhase that leaves the phase's atomic block without committing it
EndPhase_RollsBack(p) ==
    /\ lpc = p /\ ~HasRow(p)
    /\ tx' = db
    /\ lpc' = AfterPhase(p)
    /\ UNCHANGED << options, files, db, line_no, counts, failures, error, phases,
                    run, db_at_start, db_at_phase, first_run_db, exVars >>

\* the reader of the phase p is exhausted: do_import returns and its
\* transaction commits; handle goes on to the next phase
EndPhase(p) ==
    /\ lpc = p /\ ~HasRow(p)
    /\ db' = tx
    /\ lpc' = AfterPhase(p)
    /\ UNCHANGED << options, files, tx, line_no, counts, failures, error, phases,
                    run, db_at_start, db_at_phase, first_run_db, exVars >>

\* the command is run again with the same files and options
RunAgain ==
    /\ Ended /\ run < MaxRuns
    /\ run' = run + 1
    /\ first_run_db' = IF run = 1 THEN db ELSE first_run_db
    /\ db_at_start' = db
    /\ db_at_phase' = db
    /\ lpc' = "handle"
    /\ line_no' = 0
    /\ counts' = [restaurants |-> 0, inspections |-> 0, violations |-> 0]
    /\ failures' = << >>
    /\ error' = NoError
    /\ phases' = << >>
    /\ UNCHANGED << options, files, db, tx, exVars >>

LdNext ==
    \/ ResolvePaths
    \/ TruncateViolations
    \/ TruncateInspections
    \/ TruncateRestraunts
    \/ TruncateCommit
    \/ \E p \in Range(Phases) : BeginPhase(p)
    \/ ImportRestaurantRow
    \/ ImportInspectionRow
    \/ ImportViolationRow
    \/ \E p \in Range(Phases) : EndPhase(p)
    \/ RunAgain

LoadSpec == LdInit /\ [][LdNext]_vars

\* the process is killed while handle runs: the open transaction, if any,
\* is never committed
Kill ==
    /\ lpc \notin {"complete", "command_error", "uncaught", "killed"}
    /\ lpc' = "killed"
    /\ tx' = db
    /\ UNCHANGED << options, files, db, line_no, counts, failures, error, phases,
                    run, db_at_start, db_at_phase, first_run_db, exVars >>

\* the loader in an environment that may kill it at any point
KillSpec == LdInit /\ [][LdNext \/ Kill]_vars

\* either program, run on its own inputs
EitherSpec == (ExInit \/ LdInit) /\ [][ExNext \/ LdNext]_vars

----------------------------------------------------------------------------
(* Loader: properties *)

\* every inspection of d references a restaurant of d, every violation of d
\* an inspection of d
RefIntegrity(d) ==
    /\ \A k \in DOMAIN d.inspection : d.inspection[k].restraunt \in DOMAIN d.restraunt
    /\ \A k \in DOMAIN d.violation : d.violation[k].inspection \in DOMAIN d.inspection

\* C3: running the loader twice in a row with the same files and the same
\* options leaves storage in exactly the state reached after the first run,
\* for every initial storage and every triple of files.
C3_Idempotent == (run >= 2 /\ Ended) => db = first_run_db

\* the second lenient run without truncate has completed over storage that
\* holds old records next to records of the files, and it skipped a row
C3_Witness ==
    /\ run = 2 /\ lpc = "complete"
    /\ ~options.dry_run /\ ~options.truncate /\ ~options.strict
    /\ failures # << >>
    /\ Camis41 \in DOMAIN db.restraunt /\ Camis99 \in DOMAIN db.restraunt
    /\ 9 \in DOMAIN db.inspection
    /\ counts.inspections >= 1 /\ counts.violations >= 1

\* the next step processes an inspection row of a real run whose declared
\* restaurant is not in storage as the transaction sees it
OrphanInspectionRow ==
    /\ ~options.dry_run /\ lpc = "inspections" /\ HasRow("inspections")
    /\ \/ blank_to_none(CurrentRow("inspections").restraunt_camis) = None
       \/ blank_to_none(CurrentRow("inspections").restraunt_camis)[1]
              \notin DOMAIN tx.restraunt

\* the same for a violation row and its declared inspection id
OrphanViolationRow ==
    /\ ~options.dry_run /\ lpc = "violations" /\ HasRow("violations")
    /\ \/ parse_int(CurrentRow("violations").inspection_id).value = None
       \/ parse_int(CurrentRow("violations").inspection_id).value[1]
              \notin DOMAIN tx.inspection

\* the row is not written: strict aborts the import and nothing of the
\* phase is committed, lenient reports the line and goes on to the next row
RejectedOrSkipped(p) ==
    /\ db' = db
    /\ IF options.strict
       THEN /\ lpc' = "command_error"
            /\ error' = [phase |-> p, line_no |-> line_no]
            /\ tx' = db
       ELSE /\ tx' = tx
            /\ failures' = Append(failures, << p, line_no >>)
            /\ line_no' = line_no + 1
            /\ lpc' = lpc /\ counts' = counts

\* C4: in a real run an inspection row whose declared restaurant key is not
\* in storage when the row is processed, and a violation row whose declared
\* inspection id is not, is never written (strict aborts, lenient reports
\* and skips); every stored inspection references a stored restaurant and
\* every stored violation a stored inspection.
C4_ReferentialIntegrity ==
    /\ [](RefIntegrity(db))
    /\ [][ /\ OrphanInspectionRow => RejectedOrSkipped("inspections")
           /\ OrphanViolationRow => RejectedOrSkipped("violations") ]_vars

\* a lenient real run completed: it skipped an inspection row and a
\* violation row whose parents are not stored, and wrote the rows after them
C4_Witness ==
    /\ lpc = "complete" /\ ~options.dry_run /\ ~options.strict
    /\ files.inspections.rows[1] = InspOrphan
    /\ files.violations.rows[1] = ViolOrphan
    /\ << "inspections", 2 >> \in Range(failures)
    /\ << "violations", 2 >> \in Range(failures)
    /\ 1 \in DOMAIN db.inspection /\ 2 \notin DOMAIN db.inspection
    /\ 1 \in DOMAIN db.violation /\ 2 \notin DOMAIN db.violation

TruncatePcs ==
    {"truncate_violations", "truncate_inspections", "truncate_restraunts", "truncate_commit"}

\* while _truncate_all runs nothing is committed and no phase has begun;
\* inspections go only after the violations, restaurants only after both
TruncateInOrder ==
    lpc \in TruncatePcs =>
        /\ db = db_at_start
        /\ phases = << >>
        /\ tx.inspection # db.inspection => tx.violation = EmptyTable
        /\ tx.restraunt # db.restraunt =>
               tx.inspection = EmptyTable /\ tx.violation = EmptyTable
        /\ lpc = "truncate_commit" => tx = EmptyDb

FirstPhaseBegins == lpc = "import_restaurants"

\* C5 as stated: with truncate-first, violations, then inspections, then
\* restaurants are deleted inside one transaction before any import phase
\* starts, and all three tables have zero rows at the moment the first
\* import phase begins.
C5_Original ==
    /\ TruncateInOrder
    /\ (options.truncate /\ FirstPhaseBegins) => (db = EmptyDb /\ phases = << >>)

\* C5 as amended: the same for a run that is not a dry-run; a dry-run with
\* truncate-first deletes nothing.
C5_TruncateFirst ==
    /\ TruncateInOrder
    /\ (options.truncate /\ ~options.dry_run /\ FirstPhaseBegins) =>
           (db = EmptyDb /\ phases = << >>)
    /\ (options.truncate /\ options.dry_run /\ FirstPhaseBegins) => db = db_at_start

\* the first phase is about to begin on storage that truncate-first has
\* just emptied of two rows per table
C5_Witness ==
    /\ options.truncate /\ ~options.dry_run /\ FirstPhaseBegins
    /\ db_at_start = StoredDb
    /\ db = EmptyDb

\* the next step reads a row of the phase under way
RowStep == lpc \in Range(Phases) /\ HasRow(lpc)

\* the step read a row and did not count it as processed: a row failure
RowFailure == RowStep /\ counts'[lpc] = counts[lpc]

\* the run was aborted by a row (not by a path or a header)
AbortedByRow == lpc \in {"command_error", "uncaught"} /\ error.line_no >= 2

\* C12: in strict mode the first row failure in a phase aborts the phase:
\* the run ends at that row, storage is what it was when the phase began
\* (no row processed earlier in the phase remains written), and the failed
\* phase is the last phase begun in the run.
C12_StrictAborts ==
    /\ [](options.strict => failures = << >>)
    /\ [](AbortedByRow =>
            /\ phases # << >> /\ phases[Len(phases)] = error.phase
            /\ db = db_at_phase /\ tx = db_at_phase)
    /\ [][ (options.strict /\ RowFailure) =>
             /\ lpc' \in {"command_error", "uncaught"}
             /\ error' = [phase |-> lpc, line_no |-> line_no]
             /\ db' = db_at_phase /\ tx' = db_at_phase
             /\ phases' = phases ]_vars

\* a strict real run aborted on the second row of inspections.csv: the
\* inspection of the first row, written by the phase, is not stored; the
\* restaurant of the earlier phase is; the violation phase was not begun
C12_Witness ==
    /\ options.strict /\ ~options.dry_run
    /\ lpc = "command_error"
    /\ error = [phase |-> "inspections", line_no |-> 3]
    /\ counts.inspections = 1
    /\ db.inspection = EmptyTable
    /\ Camis41 \in DOMAIN db.restraunt
    /\ phases = << "restaurants", "inspections" >>

\* the row read next has a missing mandatory field, an unparsable integer or
\* date, or a parent that is not in storage
FailingRow ==
    /\ RowStep
    /\ CASE lpc = "restaurants" -> RestaurantRowFails(CurrentRow(lpc))
         [] lpc = "inspections" -> InspectionRowFails(tx, CurrentRow(lpc))
         [] lpc = "violations"  -> ViolationRowFails(tx, CurrentRow(lpc))

\* the row is recorded with its line and skipped; the phase goes on
RecordedAndSkipped ==
    /\ failures' = Append(failures, << lpc, line_no >>)
    /\ line_no' = line_no + 1
    /\ lpc' = lpc /\ counts' = counts
    /\ tx' = tx /\ db' = db

\* the row is counted as processed; the phase goes on
ProcessedAndCounted ==
    /\ counts' = [counts EXCEPT ![lpc] = @ + 1]
    /\ line_no' = line_no + 1
    /\ lpc' = lpc /\ failures' = failures

FailuresOf(p) == {k \in DOMAIN failures : failures[k][1] = p}

\* all three phases ran to their end, each row counted or recorded
AllPhasesCompleted ==
    /\ phases = Phases
    /\ \A p \in Range(Phases) :
          counts[p] + Cardinality(FailuresOf(p)) = Len(files[p].rows)

LenientRows ==
    /\ FailingRow => RecordedAndSkipped
    /\ (RowStep /\ ~FailingRow) => ProcessedAndCounted

\* C13 as stated: in lenient mode, in real runs and in dry-runs, a row
\* failure (missing mandatory field, unparsable integer or date, missing
\* parent) never aborts a phase or the import: the failing row is recorded
\* and skipped, every other row of the phase is processed, and all three
\* phases run to completion.
C13_Original ==
    /\ [](~options.strict => ~AbortedByRow)
    /\ [](~options.strict /\ lpc = "complete" => AllPhasesCompleted)
    /\ [][ ~options.strict => LenientRows ]_vars

\* C13 for real runs only: what of the statement the command does keep
C13_LenientRealRuns ==
    /\ [](~options.strict /\ ~options.dry_run => ~AbortedByRow)
    /\ [](~options.strict /\ ~options.dry_run /\ lpc = "complete" => AllPhasesCompleted)
    /\ [][ ~options.strict /\ ~options.dry_run => LenientRows ]_vars

\* a lenient real run completed after it recorded a failed row in the
\* inspection phase and one in the violation phase
C13_Witness ==
    /\ ~options.strict /\ ~options.dry_run /\ lpc = "complete"
    /\ FailuresOf("inspections") # {} /\ FailuresOf("violations") # {}
    /\ counts.inspections = 1 /\ counts.violations = 1

\* the tables after the successful rows of a file were upserted in order
RECURSIVE RestaurantsLoaded(_, _)
RestaurantsLoaded(d, rows) ==
    IF rows = << >> THEN d
    ELSE RestaurantsLoaded(
             IF RestaurantRowFails(Head(rows)) THEN d
             ELSE [d EXCEPT !.restraunt =
                      Upsert(@, blank_to_none(Head(rows).camis)[1],
                             RestaurantDefaults(Head(rows)))],
             Tail(rows))

RECURSIVE InspectionsLoaded(_, _)
InspectionsLoaded(d, rows) ==
    IF rows = << >> THEN d
    ELSE InspectionsLoaded(
             IF InspectionRowFails(d, Head(rows)) THEN d
             ELSE [d EXCEPT !.inspection =
                      Upsert(@, parse_int(Head(rows).id).value[1],
                             InspectionDefaults(Head(rows)))],
             Tail(rows))

RECURSIVE ViolationsLoaded(_, _)
ViolationsLoaded(d, rows) ==
    IF rows = << >> THEN d
    ELSE ViolationsLoaded(
             IF ViolationRowFails(d, Head(rows)) THEN d
             ELSE [d EXCEPT !.violation =
                      Upsert(@, parse_int(Head(rows).id).value[1],
                             ViolationDefaults(Head(rows)))],
             Tail(rows))

\* storage once the run is past the truncate test
AfterTruncate ==
    IF options.truncate /\ ~options.dry_run THEN EmptyDb ELSE db_at_start

\* storage after 1, 2 and 3 completed phases of this run
AfterRestaurantPhase ==
    IF options.dry_run THEN db_at_start
    ELSE RestaurantsLoaded(AfterTruncate, files.restaurants.rows)

AfterInspectionPhase ==
    IF options.dry_run THEN db_at_start
    ELSE InspectionsLoaded(AfterRestaurantPhase, files.inspections.rows)

AfterViolationPhase ==
    IF options.dry_run THEN db_at_start
    ELSE ViolationsLoaded(AfterInspectionPhase, files.violations.rows)

AbortedIn(p) == lpc \in {"command_error", "uncaught"} /\ error.phase = p

\* C14: when the inspection phase or the violation phase aborts (a strict
\* row failure or a header error), storage holds exactly what the earlier
\* phases of the run committed on top of the effect of a preceding truncate.
C14_NotCrossTransactional ==
    /\ AbortedIn("inspections") => db = AfterRestaurantPhase
    /\ AbortedIn("violations") => db = AfterInspectionPhase

\* a strict real run with truncate-first on stored rows aborted on a row of
\* violations.csv after it wrote one: the old rows are gone, the restaurant
\* and the inspection of the earlier phases are stored, no violation is
C14_Witness ==
    /\ options.strict /\ options.truncate /\ ~options.dry_run
    /\ run = 1 /\ db_at_start = StoredDb
    /\ AbortedIn("violations") /\ error.line_no = 3
    /\ DOMAIN db.restraunt = {Camis41}
    /\ DOMAIN db.inspection = {1}
    /\ db.violation = EmptyTable

\* storage after n completed phases of this run
StorageAfter(n) ==
    CASE n = 0 -> AfterTruncate
      [] n = 1 -> AfterRestaurantPhase
      [] n = 2 -> AfterInspectionPhase
      [] n = 3 -> AfterViolationPhase

\* C15: wherever the loader stops (normal end, abort, or a kill between or
\* during phases), committed storage holds all rows of a phase or none:
\* it is the storage the run started with, or the storage after a whole
\* number of completed phases, the phase begun last included or not.
C15_PhaseAtomic ==
    IF phases = << >>
    THEN db \in {db_at_start, AfterTruncate}
    ELSE db \in {StorageAfter(Len(phases) - 1), StorageAfter(Len(phases))}

\* a real run was killed in the inspection phase after it had written a
\* row: storage is that after the restaurant phase
C15_Witness ==
    /\ lpc = "killed" /\ ~options.dry_run
    /\ phases = << "restaurants", "inspections" >>
    /\ counts.inspections = 1
    /\ db = AfterRestaurantPhase /\ db # AfterInspectionPhase
    /\ tx = db

\* C16: a dry-run never changes storage: with every input and every
\* combination of --strict and --truncate, committed storage and the view
\* of any transaction equal the storage before the run in every state of
\* the run, its end included; --truncate deletes nothing.
C16_DryRunNoWrites ==
    options.dry_run => (db = db_at_start /\ tx = db_at_start)

\* a dry-run with --truncate on stored rows completed after it counted a
\* row in each phase: the stored rows are all there
C16_Witness ==
    /\ options.dry_run /\ options.truncate
    /\ lpc = "complete"
    /\ counts.restaurants >= 1 /\ counts.inspections >= 1 /\ counts.violations >= 1
    /\ db_at_start = StoredDb /\ db = StoredDb

\* the file of phase p has no header row, or lacks a required column
BadHeader(p) ==
    \/ files[p].fieldnames = << >>
    \/ \E c \in Range(Expected(p)) : c \notin Range(files[p].fieldnames)

\* C17: the header of a phase's file is validated before any row of the
\* phase is processed: a file with no header row or without a required
\* column never has a row processed, counted, reported or written, and
\* once its phase begins the import is aborted there, in strict and in
\* lenient mode, with storage as it was when the phase began.
C17_HeaderFirst ==
    \A p \in Range(Phases) :
        BadHeader(p) =>
            /\ lpc # p
            /\ counts[p] = 0
            /\ FailuresOf(p) = {}
            /\ p \in Range(phases) =>
                  /\ lpc = "command_error"
                  /\ error = [phase |-> p, line_no |-> 1]
                  /\ phases[Len(phases)] = p
                  /\ db = db_at_phase /\ tx = db_at_phase

\* a lenient real run committed a restaurant and was then aborted by
\* inspections.csv, which has rows but lacks a required column
C17_Witness ==
    /\ ~options.strict /\ ~options.dry_run
    /\ files.inspections.fieldnames # << >> /\ files.inspections.rows # << >>
    /\ BadHeader("inspections")
    /\ lpc = "command_error"
    /\ error = [phase |-> "inspections", line_no |-> 1]
    /\ Camis41 \in DOMAIN db.restraunt
    /\ counts.restaurants >= 1

\* the transaction of phase p has committed in this run
Committed(p) ==
    \E k \in DOMAIN Phases :
        /\ Phases[k] = p
        /\ k <= Len(phases)
        /\ k < Len(phases) \/ lpc \in {AfterPhase(p), "complete"}

\* row k of the file of phase p was processed without a failure
Successful(p, k) == << p, k + 1 >> \notin Range(failures)

\* the primary key a successful row declares
KeyOf(p, r) ==
    IF p = "restaurants" THEN blank_to_none(r.camis)[1] ELSE parse_int(r.id).value[1]

\* the field values a successful row declares
FieldsOf(p, r) ==
    CASE p = "restaurants" -> RestaurantDefaults(r)
      [] p = "inspections" -> InspectionDefaults(r)
      [] p = "violations"  -> ViolationDefaults(r)

TableOf(d, p) ==
    CASE p = "restaurants" -> d.restraunt
      [] p = "inspections" -> d.inspection
      [] p = "violations"  -> d.violation

\* no successful row after row k of the file has the key of row k
LastWithKey(p, k) ==
    \A j \in DOMAIN files[p].rows :
        (j > k /\ Successful(p, j)) =>
            KeyOf(p, files[p].rows[j]) # KeyOf(p, files[p].rows[k])

\* C18: after a phase of a real run commits, the stored record of every
\* primary key that occurred in a successful row holds exactly the field
\* values of the last successful row with that key in the file (parent
\* reference included, null for blank optional fields): nothing of the
\* record stored before or of earlier rows with the key is retained.
C18_FullOverwrite ==
    \A p \in Range(Phases) :
        (~options.dry_run /\ Committed(p)) =>
            \A k \in DOMAIN files[p].rows :
                (Successful(p, k) /\ LastWithKey(p, k)) =>
                    /\ KeyOf(p, files[p].rows[k]) \in DOMAIN TableOf(db, p)
                    /\ TableOf(db, p)[KeyOf(p, files[p].rows[k])]
                           = FieldsOf(p, files[p].rows[k])

\* a real run without truncate completed on stored rows: the two rows of
\* inspections.csv both have the id of a stored inspection, and the stored
\* record now has the parent of the second row and its null score and grade;
\* the two rows of restaurants.csv have one key, and the stored restaurant
\* has the null zipcode of the second
C18_Witness ==
    /\ ~options.dry_run /\ ~options.truncate /\ lpc = "complete"
    /\ run = 1 /\ db_at_start = StoredDb
    /\ files.inspections.rows = << InspA, InspA2 >>
    /\ files.restaurants.rows = << RestA, RestA2 >>
    /\ failures = << >>
    /\ db.inspection[1].restraunt = Camis42
    /\ db.inspection[1].score = None /\ db.inspection[1].grade = None
    /\ db.restraunt[Camis41].zipcode = None
    /\ db.restraunt[Camis41].name = << "E" >>

\* the name or the borough of the restaurant row is blank, or its borough
\* is none of the five of models.Boroughs
MissingNameOrBadBoro(r) ==
    \/ Strip(r.name) = << >>
    \/ Strip(r.boro) \notin Boroughs

\* C19 as stated: in a real run a restaurant row with a missing name or
\* borough, or with a borough outside the five-value enum, is a row
\* failure and is never stored: strict aborts, lenient reports and skips.
C19_Original ==
    [][ (~options.dry_run /\ lpc = "restaurants" /\ HasRow("restaurants")
            /\ MissingNameOrBadBoro(CurrentRow("restaurants"))) =>
          RejectedOrSkipped("restaurants") ]_vars

\* what the command does with such a row when its key is not blank: it
\* counts the row as processed and stores it, in strict and lenient mode
C19_StoredAnyway ==
    [][ (~options.dry_run /\ lpc = "restaurants" /\ HasRow("restaurants")
            /\ MissingNameOrBadBoro(CurrentRow("restaurants"))
            /\ Strip(CurrentRow("restaurants").camis) # << >>) =>
          /\ counts'.restaurants = counts.restaurants + 1
          /\ failures' = failures /\ lpc' = lpc
          /\ Strip(CurrentRow("restaurants").camis) \in DOMAIN tx'.restraunt
          /\ tx'.restraunt[Strip(CurrentRow("restaurants").camis)].boro
                = Strip(CurrentRow("restaurants").boro) ]_vars

\* a strict real run completed and stores a restaurant with an empty name
\* and one with an empty borough
C19_Witness ==
    /\ options.strict /\ ~options.dry_run /\ lpc = "complete"
    /\ files.restaurants.rows = << RestNoName, RestNoBoro >>
    /\ db.restraunt[Camis42].name = << >>
    /\ db.restraunt[Camis41].boro = << >>

\* a row of the file of the parent phase p declares the key and was loaded
LoadedFromFile(p, key) ==
    \E k \in DOMAIN files[p].rows :
        Successful(p, k) /\ KeyOf(p, files[p].rows[k]) = key

\* the key every loaded row of the file of the completed phase p declares
\* is in the committed table t
ParentsCommitted(p, t) ==
    \A k \in DOMAIN files[p].rows :
        Successful(p, k) => KeyOf(p, files[p].rows[k]) \in DOMAIN t

\* the parent key the current row of the child phase names, << >> if none
NamedRestraunt == blank_to_none(CurrentRow("inspections").restraunt_camis)

NamedInspection == parse_int(CurrentRow("violations").inspection_id)

\* C22: the phases of a run are begun in the order restaurants,
\* inspections, violations; while inspection rows are processed the
\* restaurant phase has committed, and while violation rows are processed
\* the inspection phase has committed: in a real run every parent loaded
\* from this run's parent file is in committed storage, so a child row
\* naming it finds its parent.
C22_PhaseOrder ==
    /\ \A k \in DOMAIN phases : phases[k] = Phases[k]
    /\ lpc = "inspections" => Committed("restaurants")
    /\ lpc = "violations" => Committed("restaurants") /\ Committed("inspections")
    /\ (lpc = "inspections" /\ ~options.dry_run) =>
          /\ ParentsCommitted("restaurants", db.restraunt)
          /\ (HasRow("inspections") /\ NamedRestraunt # None
                /\ LoadedFromFile("restaurants", NamedRestraunt[1]))
             => ~RestrauntDoesNotExist(tx.restraunt, NamedRestraunt[1])
    /\ (lpc = "violations" /\ ~options.dry_run) =>
          /\ ParentsCommitted("inspections", db.inspection)
          /\ (HasRow("violations") /\ ~NamedInspection.raised
                /\ NamedInspection.value # None
                /\ LoadedFromFile("inspections", NamedInspection.value[1]))
             => ~InspectionDoesNotExist(tx.inspection, NamedInspection.value[1])

\* a real run on empty storage is about to process a violation row whose
\* parent inspection, and that inspection's restaurant, were loaded from
\* this run's files
C22_Witness ==
    /\ lpc = "violations" /\ ~options.dry_run /\ run = 1
    /\ db_at_start = EmptyDb
    /\ HasRow("violations") /\ CurrentRow("violations") = ViolA
    /\ LoadedFromFile("inspections", 1)
    /\ LoadedFromFile("restaurants", Camis41)
    /\ db.inspection[1].restraunt = Camis41

\* the canonical flags the value equals up to letter case and outer blanks
CanonicalOf(value) == {f \in CriticalFlags : Upper(f) = Upper(Strip(value))}

\* the flag to be written for the raw value
CanonicalOrNotApplicable(value) ==
    IF CanonicalOf(value) = {} THEN NotApplicable
    ELSE CHOOSE f \in CanonicalOf(value) : TRUE

\* the violation phase of a real load has committed
ViolationsCommitted ==
    lpc # "idle" /\ Committed("violations") /\ ~options.dry_run

\* C28: every Violation record the extractor writes has a critical_flag
\* that is one of Critical, Not Critical, Not Applicable: the canonical form
\* of the raw value when it is one of the three up to letter case, Not
\* Applicable for any other or blank value; a row is rejected for its
\* restaurant fields only, never for its flag.  The loader stores Not
\* Applicable for a row of violations.csv whose critical_flag is blank.
C28_CriticalFlagClosed ==
    /\ [](\A v \in DOMAIN viol_out : viol_out[v].critical_flag \in CriticalFlags)
    /\ [][ Appended(viol_out', viol_out) =>
             viol_out'[Len(viol_out')].critical_flag
                 = CanonicalOrNotApplicable(row'.CSV_CRITICAL_FLAG) ]_vars
    /\ [][ (Appended(history', history) /\ history'[Len(history')].outcome = "rejected")
             => InvalidRestaurant(row') ]_vars
    /\ [](ViolationsCommitted =>
            \A k \in DOMAIN files.violations.rows :
                (/\ Successful("violations", k)
                 /\ LastWithKey("violations", k)
                 /\ blank_to_none(files.violations.rows[k].critical_flag) = None)
                => db.violation[KeyOf("violations", files.violations.rows[k])].critical_flag
                      = NotApplicable)

\* the extractor wrote three violations: for the flag CRITICAL the record
\* has Critical, for a blank flag and for the flag Maybe it has Not Applicable
C28_Witness ==
    /\ Len(viol_out) = 3
    /\ viol_out[1].critical_flag = Critical
    /\ viol_out[2].critical_flag = NotApplicable
    /\ viol_out[3].critical_flag = NotApplicable
    /\ row.CSV_CRITICAL_FLAG = UnknownFlag
    /\ history[1].outcome = "processed"

\* the primary keys the rows of the file of phase p declare, whether the
\* row is loaded or fails
KeysInFile(p) ==
    IF p = "restaurants"
    THEN {blank_to_none(files[p].rows[k].camis)[1] :
            k \in {j \in DOMAIN files[p].rows : blank_to_none(files[p].rows[j].camis) # None}}
    ELSE {parse_int(files[p].rows[k].id).value[1] :
            k \in {j \in DOMAIN files[p].rows :
                     /\ ~parse_int(files[p].rows[j].id).raised
                     /\ parse_int(files[p].rows[j].id).value # None}}

\* every record of the table old is in the table new, and unchanged there
\* unless its key is one of keys
KeptExcept(new, old, keys) ==
    \A k \in DOMAIN old : k \in DOMAIN new /\ (k \notin keys => new[k] = old[k])

\* C31: in a run without --truncate no stored record is ever deleted, and
\* a stored Restaurant, Inspection or Violation whose primary key occurs in
\* no row of the corresponding file is, in every state of the run, exactly
\* what it was when the run started.
C31_OthersUntouched ==
    (lpc # "idle" /\ ~options.truncate) =>
        \A d \in {db, tx} :
            /\ KeptExcept(d.restraunt, db_at_start.restraunt, KeysInFile("restaurants"))
            /\ KeptExcept(d.inspection, db_at_start.inspection, KeysInFile("inspections"))
            /\ KeptExcept(d.violation, db_at_start.violation, KeysInFile("violations"))

\* a real run without --truncate completed on stored records: restaurant
\* 42 and inspection 1 were given rows and changed, restaurant 99,
\* inspection 9 and violation 7 were not and are what they were
C31_Witness ==
    /\ lpc = "complete" /\ run = 1
    /\ ~options.truncate /\ ~options.dry_run
    /\ db_at_start = StoredDb
    /\ Camis99 \notin KeysInFile("restaurants")
    /\ db.restraunt[Camis42] # StoredDb.restraunt[Camis42]
    /\ db.inspection[1] # StoredDb.inspection[1]
    /\ db.restraunt[Camis99] = StoredDb.restraunt[Camis99]
    /\ db.inspection[9] = StoredDb.inspection[9]
    /\ db.violation[7] = StoredDb.violation[7]

\* the run ended on a configuration error: a missing file (line 0), or a
\* missing header row or column (line 1)
ConfigurationError == lpc = "command_error" /\ error.line_no <= 1

\* C32 as stated: a fatal configuration error (a missing input file, a
\* missing header row, a missing required column in any of the three files)
\* leaves storage exactly as it was before the run, --truncate included:
\* nothing is deleted and nothing is written.
C32_Original == ConfigurationError => db = db_at_start

\* what a configuration error leaves: a missing file is found before
\* anything is touched; a header error leaves what the truncate and the
\* earlier phases of the run committed, and nothing of its own phase
C32_NothingOfTheFailedPhase ==
    ConfigurationError =>
        /\ tx = db
        /\ error.phase = "paths" => db = db_at_start
        /\ error.phase # "paths" => db = db_at_phase /\ db = StorageAfter(Len(phases) - 1)

\* --truncate on stored records and a restaurants.csv without its last
\* column: the run failed on the header and storage is empty
C32_Witness ==
    /\ ConfigurationError /\ error.phase = "restaurants"
    /\ options.truncate /\ ~options.dry_run
    /\ db_at_start = StoredDb
    /\ db = EmptyDb
    /\ files.restaurants.fieldnames = SubSeq(RestaurantColumns, 1, 7)

\* storage of a real run of the same command once past the truncate test,
\* and after its restaurant and inspection phases
RealAfterTruncate == IF options.truncate THEN EmptyDb ELSE db_at_start

RealAfterRestaurants == RestaurantsLoaded(RealAfterTruncate, files.restaurants.rows)

RealAfterInspections == InspectionsLoaded(RealAfterRestaurants, files.inspections.rows)

\* row k of the file of phase p fails in a real lenient run
RealRunFails(p, k) ==
    CASE p = "restaurants" -> RestaurantRowFails(files[p].rows[k])
      [] p = "inspections" -> InspectionRowFails(RealAfterRestaurants, files[p].rows[k])
      [] p = "violations"  -> ViolationRowFails(RealAfterInspections, files[p].rows[k])

\* the warnings and the counts of a real lenient run
RealRunFailures ==
    {f \in Range(Phases) \X (2..(MaxRows + 1)) :
        f[2] - 1 \in DOMAIN files[f[1]].rows /\ RealRunFails(f[1], f[2] - 1)}

RealRunCount(p) == Cardinality({k \in DOMAIN files[p].rows : ~RealRunFails(p, k)})

\* a dry-run has ended, and not on a missing file or a bad header
DryRunEnded == lpc # "idle" /\ options.dry_run /\ Ended /\ ~ConfigurationError

\* C33 as stated: for the same files, mode and storage a dry-run reports
\* the rows a real run reports as failed and returns the per-entity counts
\* a real run returns, rows with a missing parent or an unparsable date or
\* score included; in strict mode it completes exactly when the real run does.
C33_Original ==
    /\ (DryRunEnded /\ ~options.strict) =>
          /\ lpc = "complete"
          /\ Range(failures) = RealRunFailures
          /\ \A p \in Range(Phases) : counts[p] = RealRunCount(p)
    /\ (DryRunEnded /\ options.strict) =>
          (lpc = "complete" <=> RealRunFailures = {})

\* what a dry-run does report: a row it reports fails in the real run too,
\* and these are the rows with a blank key or a blank parent key; unless an
\* unparsable integer key ended the rehearsal with an uncaught ValueError,
\* every other row is counted
C33_DryRunChecksKeysOnly ==
    (DryRunEnded /\ ~options.strict) =>
        /\ Range(failures) \subseteq RealRunFailures
        /\ lpc = "complete" =>
              \A p \in Range(Phases) :
                  counts[p] + Cardinality(FailuresOf(p)) = Len(files[p].rows)

\* a lenient dry-run on empty storage completed without a warning and
\* counted both rows of inspections.csv; the first names a restaurant that
\* is in no file and not stored, so a real run reports it and counts one
C33_Witness ==
    /\ DryRunEnded /\ ~options.strict /\ lpc = "complete"
    /\ db_at_start = EmptyDb
    /\ files.inspections.rows = << InspOrphan, InspA >>
    /\ failures = << >>
    /\ counts.inspections = 2
    /\ RealRunFails("inspections", 1)

====
